---------------------------- MODULE Spec2Model ----------------------------
(***************************************************************************)
(* A model of backend/app/mavlink_parser.py: MAVLinkParser.parse() and the *)
(* feature extractors it calls.                                            *)
(*                                                                         *)
(* Representation of Python values                                         *)
(*   - None / a missing dict key is the empty tuple <<>>, a present value  *)
(*     v is <<v>> (None, Some, Get).                                       *)
(*   - float seconds are fixed-point integers, TsScale units per second.   *)
(*   - float degrees are fixed-point integers, DegScale units per degree.  *)
(*   - float metres are fixed-point integers, AltScale units per metre.    *)
(*     All inputs are chosen so that the program's divisions are exact in  *)
(*     this representation; floating-point rounding is not modelled.       *)
(*   - a str that the program searches is a tuple of one-character         *)
(*     strings; other strs are TLA+ strings.                               *)
(***************************************************************************)
EXTENDS Integers, Sequences, FiniteSets, TLC

VARIABLES
    pc,                 \* position of the caller: Unconstructed, ConstructFailed,
                        \* Constructed, Streaming, Complete, Failed
    file_exists,        \* file_path names an existing file
    log_frames,         \* the frames the log file being decoded can deliver
    log,                \* history: outcome of every recv_match() call of this parse
    file,               \* once parse() is called again: the outcomes the file replays
    reader_broken,      \* recv_match() has met an error that persists
    mlog_open,          \* the connection opened by mavlink_connection is open
    messages,           \* self.messages: msg_type -> list of msg_dict
    message_types,      \* self.message_types
    metadata,           \* self.metadata
    current_timestamp,  \* self.current_timestamp
    trajectory,         \* parse() local
    time_trajectory,    \* parse() local
    start_altitude,     \* parse() local
    last_position,      \* parse() local
    last_timestamp,     \* parse() local
    attitude,           \* result["attitude"]
    flight_modes,       \* result["flight_modes"]
    vehicle_type,       \* result["vehicle_type"]
    result_keys,        \* the keys of the dict parse() returned
    returned,           \* history: what the first result held when it was returned
    question,           \* the question put to classify_query_type
    query_type,         \* what classify_query_type returned for it, "" before the call
    parsers,            \* two parsers side by side: position, reads and locals of each
    store,              \* two parsers side by side: the containers made by __init__
    saved,              \* what save_faiss_index left on disk for the fileKey
    tool_call,          \* the call of a tool of tools.py that has returned
    tool_result,        \* what that call returned
    eval_pc,            \* a call on a ResponseEvaluator: idle, awaiting, returned, raised
    eval_call,          \* the name of the method called on it
    llm_content,        \* response.content of the evaluating LLM, None if ainvoke raised
    eval_result,        \* the (route, reason) pair that evaluate returned
    file_data,          \* main.file_data: fileKey -> stored entry
    uploads,            \* the files of the uploads directory, as <<key, extension>>
    faiss_indexes,      \* the keys whose index and snippets file are saved
    active_connections, \* main.active_connections, a list of WebSockets
    closed_connections, \* the WebSockets that were removed from it
    requests,           \* the HTTP requests of the server and where each stands
    orch_pc,            \* answer_question: the await it stands at, returned or raised
    orch_args,          \* whether it was given a fileKey and an embedding_snippet
    orch_decision,      \* the (route, reason) pair that its evaluator returned
    orch_returned       \* the kind of string it returned

\* the state of one MAVLinkParser and of the parse() call on it
parser_vars == <<pc, file_exists, log_frames, log, file, reader_broken, mlog_open,
                 messages, message_types, metadata,
                 current_timestamp, trajectory, time_trajectory, start_altitude,
                 last_position, last_timestamp, attitude, flight_modes,
                 vehicle_type, result_keys, returned>>

\* the question and its classification
query_vars == <<question, query_type>>

\* the two parsers that run side by side
two_vars == <<parsers, store>>

\* the index and snippets of a fileKey, and a call of a tool on them
tools_vars == <<saved, tool_call, tool_result>>

\* a call on a ResponseEvaluator
eval_vars == <<eval_pc, eval_call, llm_content, eval_result>>

\* the API server of main.py
server_vars ==
    <<file_data, uploads, faiss_indexes, active_connections,
      closed_connections, requests>>

\* one call of FlightLogAgentOrchestrator.answer_question
orch_vars == <<orch_pc, orch_args, orch_decision, orch_returned>>

\* the state that no method of the parser under study touches
outside_parser == <<query_vars, two_vars, tools_vars, eval_vars, server_vars, orch_vars>>

\* the state that classify_query_type does not touch
outside_query ==
    <<parser_vars, two_vars, tools_vars, eval_vars, server_vars, orch_vars>>

\* the state that the two parsers side by side do not touch
outside_two ==
    <<parser_vars, query_vars, tools_vars, eval_vars, server_vars, orch_vars>>

\* the state that the tools do not touch
outside_tools ==
    <<parser_vars, query_vars, two_vars, eval_vars, server_vars, orch_vars>>

\* the state that the ResponseEvaluator does not touch
outside_eval ==
    <<parser_vars, query_vars, two_vars, tools_vars, server_vars, orch_vars>>

\* the state that answer_question does not touch
outside_orch ==
    <<parser_vars, query_vars, two_vars, tools_vars, eval_vars, server_vars>>

\* the state that the API server does not touch
outside_server ==
    <<parser_vars, query_vars, two_vars, tools_vars, eval_vars, orch_vars>>

vars == <<parser_vars, outside_parser>>

(***************************************************************************)
(* Bounds and representation scales                                        *)
(***************************************************************************)
\* recv_match() calls that do not report end-of-stream, per parse
MaxFrames == 3

\* fixed-point units per second (time_boot_ms / 1000.0 is exact)
TsScale == 1000
\* fixed-point units per degree (msg.lat / 1e7 is exact)
DegScale == 10000000
\* fixed-point units per metre (msg.relative_alt / 1000.0 is exact)
AltScale == 1000

None == <<>>
Some(v) == <<v>>
Get(o) == o[1]

Abs(n) == IF n < 0 THEN -n ELSE n

\* Python truthiness of an Optional[float]: None and 0.0 are falsy
Truthy(o) == o # None /\ Get(o) # 0

(***************************************************************************)
(* Frames: what mlog.recv_match() returns.  An attribute of a frame is     *)
(* absent, present with a number, or present with a value on which         *)
(* arithmetic raises (ok = FALSE).                                         *)
(***************************************************************************)
Absent == [has |-> FALSE, ok |-> TRUE, v |-> 0]
Num(n) == [has |-> TRUE, ok |-> TRUE, v |-> n]
Bad == [has |-> TRUE, ok |-> FALSE, v |-> 0]

\* fault names the call of the loop body that raises for this frame:
\* "get_type", "to_dict", "position" (reading msg.lat .. msg.relative_alt), or "none"
Frame(t, cap, boot, usec, flt, flds) ==
    [msg_type |-> t, _timestamp |-> cap, time_boot_ms |-> boot,
     time_unix_usec |-> usec, fault |-> flt, fields |-> flds]

\* a frame stamped by the reader at cap (fixed-point seconds)
Stamped(t, cap, flt, flds) == Frame(t, Num(cap), Absent, Absent, flt, flds)

Position(lat, lon, relative_alt) ==
    [lat |-> lat, lon |-> lon, relative_alt |-> relative_alt]

Gpi(cap, lat, lon, relative_alt) ==
    Stamped("GLOBAL_POSITION_INT", cap, "none", Position(lat, lon, relative_alt))

Heartbeat(cap, flds) == Stamped("HEARTBEAT", cap, "none", flds)

Msg(cap, text) == Stamped("MSG", cap, "none", [Message |-> text])

Attitude(cap) == Stamped("ATTITUDE", cap, "none", [roll |-> 1, pitch |-> 2, yaw |-> 3])

TextArduPlane == <<"A","r","d","u","P","l","a","n","e"," ","V","4">>
TextArduCopter == <<"A","r","d","u","C","o","p","t","e","r">>
TextRover == <<"A","P","M",":","R","o","v","e","r">>
TextPreArm == <<"P","r","e","A","r","m">>

\* a log of position reports
PositionFrames ==
    { Gpi(1000, 0, 0, 5000),
      Gpi(1050, 0, 0, 5000),
      Gpi(1050, 200, 0, 5000),
      Gpi(1200, 200, 0, 5000),
      Gpi(201000, 60, 0, 5000),
      Gpi(201000, 200, 0, 5000),
      Gpi(201000, 0, 200, 5000),
      Gpi(201000, 0, 0, 5000),
      Gpi(402000, 120, 0, 5000),
      Gpi(402000, 0, 0, 5150),
      Stamped("GLOBAL_POSITION_INT", 201000, "position", Position(200, 0, 5000)) }

\* a log of heartbeats and status texts
HeartbeatFrames ==
    { Heartbeat(1000, [type |-> 2, custom_mode |-> 0]),
      Heartbeat(2000, [type |-> 2, custom_mode |-> 4]),
      Heartbeat(3000, [type |-> 1, custom_mode |-> 4]),
      Heartbeat(1000, [type |-> 99, custom_mode |-> 0]),
      Heartbeat(1500, [autopilot |-> 3]),
      Msg(1100, TextArduPlane),
      Msg(1200, TextArduCopter),
      Msg(1300, TextRover),
      Msg(1400, TextPreArm) }

\* a log of mixed frames, some of them damaged
MixedFrames ==
    { Attitude(0),
      Attitude(5000),
      Stamped("ATTITUDE", 6000, "none", [pitch |-> 2, yaw |-> 3]),
      Stamped("ATTITUDE", 7000, "to_dict", [roll |-> 1, pitch |-> 2, yaw |-> 3]),
      Stamped("SYS_STATUS", 8000, "get_type", [load |-> 1]),
      Stamped("GLOBAL_POSITION_INT", 9000, "position", Position(0, 0, 5000)),
      Frame("SYS_STATUS", Absent, Num(4000), Absent, "none", [load |-> 1]),
      Frame("SYS_STATUS", Absent, Bad, Absent, "none", [load |-> 1]),
      Frame("SYSTEM_TIME", Absent, Absent, Num(2000000), "none", [load |-> 1]),
      Frame("PARAM_VALUE", Absent, Absent, Absent, "none", [param_value |-> 1]) }

\* a log of frames that carry zero, one or several time fields
TimestampFrames ==
    { Frame("SYS_STATUS", Num(1000), Num(2000), Num(1500000), "none", [load |-> 1]),
      Frame("SYS_STATUS", Absent, Num(2000), Num(1500000), "none", [load |-> 1]),
      Frame("SYSTEM_TIME", Num(1000), Absent, Num(1500000), "none", [load |-> 1]),
      Frame("SYSTEM_TIME", Absent, Absent, Num(1500000), "none", [load |-> 1]),
      Frame("PARAM_VALUE", Absent, Absent, Absent, "none", [param_value |-> 1]),
      Frame("RAW_IMU", Num(1000), Bad, Absent, "none", [xacc |-> 1]),
      Frame("RAW_IMU", Absent, Bad, Num(1500000), "none", [xacc |-> 1]),
      Frame("RAW_IMU", Absent, Absent, Bad, "none", [xacc |-> 1]) }

\* a log whose position reports are not in the order of their time stamps
OutOfOrderFrames ==
    { Gpi(1000, 0, 0, 5000),
      Gpi(402000, 0, 0, 5000),
      Gpi(201000, 200, 0, 5000) }

LogKinds ==
    {PositionFrames, HeartbeatFrames, MixedFrames, TimestampFrames, OutOfOrderFrames}

\* values time.time() can return during one parse (fixed-point seconds)
WallClock == {900000, 900001}


(***************************************************************************)
(* MAVLinkParser._get_timestamp                                            *)
(***************************************************************************)
\* msg.time_boot_ms / 1000.0
BootMsToSeconds(ms) == (ms * TsScale) \div 1000

\* msg.time_unix_usec / 1000000.0
UnixUsecToSeconds(us) == (us * TsScale) \div 1000000

\* mutant of _get_timestamp: time.time() is called for every frame without a time field
_get_timestamp_NoCache(msg, cur, now) ==
    IF msg._timestamp.has
    THEN [timestamp |-> msg._timestamp.v, current_timestamp |-> cur]
    ELSE IF msg.time_boot_ms.has
    THEN [timestamp |-> IF msg.time_boot_ms.ok
                        THEN (msg.time_boot_ms.v * TsScale) \div 1000 ELSE now,
          current_timestamp |-> cur]
    ELSE IF msg.time_unix_usec.has
    THEN [timestamp |-> IF msg.time_unix_usec.ok
                        THEN (msg.time_unix_usec.v * TsScale) \div 1000000 ELSE now,
          current_timestamp |-> cur]
    ELSE [timestamp |-> now, current_timestamp |-> Some(now)]

\* mutant of _get_timestamp: time_boot_ms is tried before _timestamp
_get_timestamp_BootFirst(msg, cur, now) ==
    IF msg.time_boot_ms.has
    THEN [timestamp |-> IF msg.time_boot_ms.ok
                        THEN (msg.time_boot_ms.v * TsScale) \div 1000 ELSE now,
          current_timestamp |-> cur]
    ELSE IF msg._timestamp.has
    THEN [timestamp |-> msg._timestamp.v, current_timestamp |-> cur]
    ELSE IF msg.time_unix_usec.has
    THEN [timestamp |-> IF msg.time_unix_usec.ok
                        THEN (msg.time_unix_usec.v * TsScale) \div 1000000 ELSE now,
          current_timestamp |-> cur]
    ELSE IF cur = None
    THEN [timestamp |-> now, current_timestamp |-> Some(now)]
    ELSE [timestamp |-> Get(cur), current_timestamp |-> cur]

\* The resolved timestamp and the new self.current_timestamp.  `now` is what
\* time.time() returns if it is called.  Arithmetic on a bad field raises
\* inside the try block and the except branch returns time.time().
_get_timestamp(msg, cur, now) ==
    IF msg._timestamp.has
    THEN [timestamp |-> msg._timestamp.v, current_timestamp |-> cur]
    ELSE IF msg.time_boot_ms.has
    THEN [timestamp |-> IF msg.time_boot_ms.ok
                        THEN BootMsToSeconds(msg.time_boot_ms.v) ELSE now,
          current_timestamp |-> cur]
    ELSE IF msg.time_unix_usec.has
    THEN [timestamp |-> IF msg.time_unix_usec.ok
                        THEN UnixUsecToSeconds(msg.time_unix_usec.v) ELSE now,
          current_timestamp |-> cur]
    ELSE IF cur = None
    THEN [timestamp |-> now, current_timestamp |-> Some(now)]
    ELSE [timestamp |-> Get(cur), current_timestamp |-> cur]

(***************************************************************************)
(* The trajectory filter of parse()                                        *)
(***************************************************************************)
\* msg.lat / 1e7, msg.lon / 1e7
Degrees(raw) == (raw * DegScale) \div 10000000

\* msg.relative_alt / 1000.0
Metres(raw) == (raw * AltScale) \div 1000

\* timestamp * 1000
ToMillis(timestamp) == (timestamp * 1000) \div TsScale

\* mutant of EnoughTime: the minimum interval is dropped
EnoughTime_NoInterval(timestamp, last_ts) ==
    last_ts = None \/ (timestamp - Get(last_ts)) >= 0

\* mutant of EnoughTime: the interval is taken as a distance in time
EnoughTime_Symmetric(timestamp, last_ts) ==
    last_ts = None \/ Abs(timestamp - Get(last_ts)) >= 200 * TsScale

\* last_timestamp is None or (timestamp - last_timestamp) >= 200
EnoughTime(timestamp, last_ts) ==
    last_ts = None \/ (timestamp - Get(last_ts)) >= 200 * TsScale

\* last_position is None or lat, lon or relative_alt moved beyond the threshold
MovedEnough(lat, lon, relative_alt, last_pos) ==
    \/ last_pos = None
    \/ Abs(lat - Get(last_pos)[1]) * 100000 > DegScale
    \/ Abs(lon - Get(last_pos)[2]) * 100000 > DegScale
    \/ Abs(relative_alt - Get(last_pos)[3]) * 10 > AltScale

\* mutant of NextStartAltitude: the None test is dropped
NextStartAltitude_Reset(start, relative_alt) == Some(relative_alt)

\* if start_altitude is None: start_altitude = relative_alt
NextStartAltitude(start, relative_alt) ==
    IF start = None THEN Some(relative_alt) ELSE start

(***************************************************************************)
(* The streaming loop of parse()                                           *)
(***************************************************************************)
\* mutant of HandleFrameError: the counter is not incremented
HandleFrameError_NoCount(md) == md

\* except Exception: self.metadata["corrupted_messages"] += 1; continue
HandleFrameError(md) == [md EXCEPT !.corrupted_messages = @ + 1]

\* the frame passes msg.get_type()
Typed(msg) == msg.fault # "get_type"

\* the frame passes msg.to_dict() and its record is appended
Converted(msg) == Typed(msg) /\ msg.fault # "to_dict"

\* the frame enters the GLOBAL_POSITION_INT branch
IsPosition(msg) == Converted(msg) /\ msg.msg_type = "GLOBAL_POSITION_INT"

\* an exception reaches the except clause of the loop for this frame
Raises(msg) == ~Converted(msg) \/ (IsPosition(msg) /\ msg.fault = "position")

\* msg_dict = msg.to_dict(); msg_dict['_timestamp'] = timestamp
MsgDict(msg, timestamp) == [_timestamp |-> timestamp] @@ msg.fields

\* if msg_type not in self.messages: self.messages[msg_type] = []
WithBucket(msgs, t) ==
    IF t \in DOMAIN msgs THEN msgs ELSE msgs @@ (t :> <<>>)

\* the table as it stands after the loop
WithPositionBucket_OnlySeen(msgs) == msgs

\* if "GLOBAL_POSITION_INT" not in self.messages: self.messages[...] = []
WithPositionBucket(msgs) == WithBucket(msgs, "GLOBAL_POSITION_INT")

AppendRecord(msgs, t, rec) ==
    [WithBucket(msgs, t) EXCEPT ![t] = Append(@, rec)]

NoFrame == Frame("", Absent, Absent, Absent, "none", [none |-> 0])

(***************************************************************************)
(* Feature extraction                                                      *)
(***************************************************************************)
\* mutant of AttitudeRaises: self.messages["ATTITUDE"] is read without the membership test
AttitudeRaises_Unguarded(msgs) ==
    \/ "ATTITUDE" \notin DOMAIN msgs
    \/ \E i \in 1..Len(msgs["ATTITUDE"]) :
          ~({"roll", "pitch", "yaw"} \subseteq DOMAIN msgs["ATTITUDE"][i])

\* msg["roll"], msg["pitch"] or msg["yaw"] raises KeyError for some ATTITUDE record
AttitudeRaises(msgs) ==
    /\ "ATTITUDE" \in DOMAIN msgs
    /\ \E i \in 1..Len(msgs["ATTITUDE"]) :
          ~({"roll", "pitch", "yaw"} \subseteq DOMAIN msgs["ATTITUDE"][i])

_process_attitude(msgs) ==
    LET recs == IF "ATTITUDE" \in DOMAIN msgs THEN msgs["ATTITUDE"] ELSE <<>>
    IN  [roll |-> [i \in 1..Len(recs) |-> recs[i].roll],
         pitch |-> [i \in 1..Len(recs) |-> recs[i].pitch],
         yaw |-> [i \in 1..Len(recs) |-> recs[i].yaw],
         timestamps |-> [i \in 1..Len(recs) |-> recs[i]._timestamp]]

\* if "custom_mode" in msg
EmitsMode(recs, i) == "custom_mode" \in DOMAIN recs[i]

RECURSIVE ModeEntries(_, _)
ModeEntries(recs, i) ==
    IF i > Len(recs) THEN <<>>
    ELSE IF EmitsMode(recs, i)
    THEN <<[timestamp |-> recs[i]._timestamp, mode |-> recs[i].custom_mode]>>
         \o ModeEntries(recs, i + 1)
    ELSE ModeEntries(recs, i + 1)

_process_flight_modes(msgs) ==
    IF "HEARTBEAT" \in DOMAIN msgs THEN ModeEntries(msgs["HEARTBEAT"], 1) ELSE <<>>

type_map ==
    (0 :> "Generic") @@ (1 :> "Fixed Wing") @@ (2 :> "Quadcopter") @@
    (3 :> "Coaxial Helicopter") @@ (4 :> "Helicopter") @@
    (5 :> "Antenna Tracker") @@ (6 :> "GCS") @@ (7 :> "Airship") @@
    (8 :> "Free Balloon") @@ (9 :> "Rocket") @@ (10 :> "Ground Rover") @@
    (11 :> "Surface Boat") @@ (12 :> "Submarine") @@ (13 :> "Hexacopter") @@
    (14 :> "Octocopter") @@ (15 :> "Tricopter") @@ (16 :> "Flapping Wing") @@
    (17 :> "Kite") @@ (18 :> "Onboard Controller") @@ (19 :> "VTOL Duorotor") @@
    (20 :> "VTOL Quadrotor") @@ (21 :> "VTOL Tiltrotor") @@
    (22 :> "VTOL Reserved 2") @@ (23 :> "VTOL Reserved 3") @@
    (24 :> "VTOL Reserved 4") @@ (25 :> "VTOL Reserved 5") @@ (26 :> "Gimbal") @@
    (27 :> "ADSB") @@ (28 :> "Parafoil") @@ (29 :> "Dodecarotor")

\* str.lower() on one character
LowerChar(c) ==
    LET up == <<"A","B","C","D","E","F","G","H","I","J","K","L","M",
                "N","O","P","Q","R","S","T","U","V","W","X","Y","Z">>
        lo == <<"a","b","c","d","e","f","g","h","i","j","k","l","m",
                "n","o","p","q","r","s","t","u","v","w","x","y","z">>
    IN  IF \E i \in 1..26 : up[i] = c
        THEN lo[CHOOSE i \in 1..26 : up[i] = c]
        ELSE c

\* str.lower()
Lower(text) == [i \in 1..Len(text) |-> LowerChar(text[i])]

\* needle in text
Contains(text, needle) ==
    \E i \in 1..(Len(text) - Len(needle) + 1) :
        SubSeq(text, i, i + Len(needle) - 1) = needle

\* the if/elif chain applied to one lower-cased Message
KeywordType(msg_text) ==
    IF Contains(msg_text, <<"a","r","d","u","p","l","a","n","e">>) THEN "Fixed Wing"
    ELSE IF Contains(msg_text, <<"a","r","d","u","c","o","p","t","e","r">>) THEN "Quadcopter"
    ELSE IF Contains(msg_text, <<"a","r","d","u","s","u","b">>) THEN "Submarine"
    ELSE IF Contains(msg_text, <<"r","o","v","e","r">>) THEN "Ground Rover"
    ELSE IF Contains(msg_text, <<"t","r","a","c","k","e","r">>) THEN "Antenna Tracker"
    ELSE "UNKNOWN"

\* msg.get("Message", "").lower()
MessageText(rec) == Lower(IF "Message" \in DOMAIN rec THEN rec.Message ELSE <<>>)

\* for msg in self.messages["MSG"]: ... break at the first keyword found
RECURSIVE ScanText(_, _)
ScanText(recs, i) ==
    IF i > Len(recs) THEN "UNKNOWN"
    ELSE IF KeywordType(MessageText(recs[i])) # "UNKNOWN"
    THEN KeywordType(MessageText(recs[i]))
    ELSE ScanText(recs, i + 1)

\* the part of _get_vehicle_type that reads the first HEARTBEAT
HeartbeatType(msgs) ==
    IF "HEARTBEAT" \in DOMAIN msgs /\ msgs["HEARTBEAT"] # <<>>
         /\ "type" \in DOMAIN msgs["HEARTBEAT"][1]
    THEN LET type_id == msgs["HEARTBEAT"][1].type
         IN  IF type_id \in DOMAIN type_map
             THEN type_map[type_id]
             ELSE "Unknown Type " \o ToString(type_id)
    ELSE "UNKNOWN"

\* mutant of NeedsTextScan: the text scan runs whatever the heartbeat said
NeedsTextScan_Always(vt, msgs) == "MSG" \in DOMAIN msgs

\* if vehicle_type == "UNKNOWN" and "MSG" in self.messages
NeedsTextScan(vt, msgs) == vt = "UNKNOWN" /\ "MSG" \in DOMAIN msgs

_get_vehicle_type(msgs) ==
    IF NeedsTextScan(HeartbeatType(msgs), msgs)
    THEN ScanText(msgs["MSG"], 1)
    ELSE HeartbeatType(msgs)

\* duration is set when first_timestamp and last_timestamp are both truthy
WithDuration(md) ==
    IF Truthy(md.first_timestamp) /\ Truthy(md.last_timestamp)
    THEN [md EXCEPT !.duration = Some(Get(md.last_timestamp) - Get(md.first_timestamp))]
    ELSE md


\* self.metadata["currentTrajectory"] = trajectory
\* self.metadata["trajectorySources"] = ["GLOBAL_POSITION_INT"]
WithTrajectory(md, track) ==
    [currentTrajectory |-> track,
     trajectorySources |-> <<"GLOBAL_POSITION_INT">>] @@ md

(***************************************************************************)
(* embeddings.classify_query_type                                          *)
(***************************************************************************)
\* the most phrases a question is made of
MaxPhrases == 2

\* what the questions put to the classifier are made of
Phrases ==
    {<<"W","e","r","e"," ","t","h","e","r","e"," ","a","n","y"," ","a","n","o","m","a","l","i","e","s","?">>,
     <<"A","n","y"," ","e","r","r","o","r","s"," ","o","r"," ","w","a","r","n","i","n","g","s","?">>,
     <<"T","e","l","l"," ","m","e"," ","a"," ","j","o","k","e">>,
     <<"W","h","a","t"," ","w","a","s"," ","t","h","e"," ","h","i","g","h","e","s","t"," ","a","l","t","i","t","u","d","e","?">>,
     <<"W","h","e","n"," ","d","i","d"," ","t","h","e"," ","G","P","S"," ","d","r","o","p","?">>,
     <<"W","a","s"," ","t","h","e"," ","s","i","g","n","a","l"," ","l","o","s","t","?">>,
     <<"A","n","y"," ","p","r","o","b","l","e","m">>,
     <<"H","e","l","l","o">>,
     <<"W","A","R","N","I","N","G">>,
     <<"D","e","s","c","r","i","b","e"," ","t","h","e"," ","i","s","s","u","e">>}

\* the questions of n phrases, joined by blanks
RECURSIVE Sentences(_)
Sentences(n) ==
    IF n = 1 THEN Phrases
    ELSE {s \o <<" ">> \o p : s \in Sentences(n - 1), p \in Phrases}

Questions == UNION {Sentences(n) : n \in 1..MaxPhrases}

\* retrieval_keywords
retrieval_keywords ==
    {<<"h","i","g","h","e","s","t">>,
     <<"a","l","t","i","t","u","d","e">>,
     <<"d","u","r","a","t","i","o","n">>,
     <<"w","h","e","n"," ","d","i","d">>,
     <<"m","a","x","i","m","u","m">>,
     <<"m","i","n">>,
     <<"m","a","x">>,
     <<"h","o","w"," ","l","o","n","g">>,
     <<"f","l","i","g","h","t"," ","t","i","m","e">>,
     <<"t","e","m","p","e","r","a","t","u","r","e">>,
     <<"l","i","s","t"," ","a","l","l">>,
     <<"f","i","r","s","t"," ","i","n","s","t","a","n","c","e">>,
     <<"r","c"," ","s","i","g","n","a","l">>,
     <<"g","p","s">>,
     <<"e","r","r","o","r">>,
     <<"c","r","i","t","i","c","a","l">>,
     <<"m","i","d","-","f","l","i","g","h","t">>,
     <<"b","a","t","t","e","r","y">>,
     <<"s","p","e","e","d">>,
     <<"d","i","s","t","a","n","c","e">>,
     <<"t","a","k","e","o","f","f">>,
     <<"l","a","n","d">>,
     <<"m","o","d","e">>,
     <<"a","r","m">>,
     <<"d","i","s","a","r","m">>}

\* anomaly_keywords
anomaly_keywords ==
    {<<"a","n","o","m","a","l","y">>,
     <<"a","n","o","m","a","l","i","e","s">>,
     <<"e","r","r","o","r">>,
     <<"w","a","r","n","i","n","g">>,
     <<"p","r","o","b","l","e","m">>,
     <<"i","s","s","u","e">>,
     <<"f","a","i","l">>,
     <<"f","a","i","l","s","a","f","e">>,
     <<"i","n","c","o","n","s","i","s","t","e","n","t">>,
     <<"l","o","s","t">>,
     <<"s","p","i","k","e">>,
     <<"j","u","m","p">>}

\* any(word in q for word in keywords)
AnyWordIn(keywords, q) == \E word \in keywords : Contains(q, word)

\* mutant of classify_query_type: the anomaly list is tested first
classify_query_type_AnomalyFirst(text) ==
    LET q == Lower(text)
    IN  IF AnyWordIn(anomaly_keywords, q) THEN "anomaly_tool"
        ELSE IF AnyWordIn(retrieval_keywords, q) THEN "retrieval"
        ELSE "unknown"

\* the retrieval list is tested first
classify_query_type(text) ==
    LET q == Lower(text)
    IN  IF AnyWordIn(retrieval_keywords, q) THEN "retrieval"
        ELSE IF AnyWordIn(anomaly_keywords, q) THEN "anomaly_tool"
        ELSE "unknown"

(***************************************************************************)
(* embeddings.build_snippets: the text of a snippet                        *)
(***************************************************************************)
DigitChars == <<"0","1","2","3","4","5","6","7","8","9">>

\* str(n) for an int n >= 0
RECURSIVE Digits(_)
Digits(n) ==
    IF n < 10 THEN <<DigitChars[n + 1]>>
    ELSE Digits(n \div 10) \o <<DigitChars[(n % 10) + 1]>>

\* a value of a message dict: an int or a str
IntValue(n) == [isnum |-> TRUE, n |-> n, s |-> <<>>]
StrValue(s) == [isnum |-> FALSE, n |-> 0, s |-> s]

\* repr() of a value
ReprValue(v) == IF v.isnum THEN Digits(v.n) ELSE <<"'">> \o v.s \o <<"'">>

\* str() of a dict, given as its <<key, value>> items in order
RECURSIVE ReprItems(_, _)
ReprItems(items, i) ==
    IF i > Len(items) THEN <<>>
    ELSE (IF i > 1 THEN <<",", " ">> ELSE <<>>)
         \o <<"'">> \o items[i][1] \o <<"'", ":", " ">>
         \o ReprValue(items[i][2]) \o ReprItems(items, i + 1)

ReprDict(items) == <<"{">> \o ReprItems(items, 1) \o <<"}">>

\* f"[{msg_type} at {time}] {body}"
SnippetText(msg_type, time, body) ==
    <<"[">> \o msg_type \o <<" ","a","t"," ">> \o time \o <<"]", " ">> \o body

\* an entry of the snippets file; msg is the dict the text was written from
\* and is not part of the file
SnippetOf(msg_type, time, body, msg) ==
    [isdict |-> TRUE, text |-> SnippetText(msg_type, time, body),
     msg_type |-> msg_type, time |-> time, msg |-> msg]

\* the default branch of build_snippets: the text ends with str(msg)
DictSnippet(msg_type, time, msg) == SnippetOf(msg_type, time, ReprDict(msg), msg)

(***************************************************************************)
(* tools.detect_anomalies                                                  *)
(***************************************************************************)
\* keywords
keywords ==
    {<<"b","a","t","t","e","r","y"," ","l","o","w">>,
     <<"g","p","s"," ","l","o","s","t">>,
     <<"g","p","s"," ","s","i","g","n","a","l"," ","l","o","s","t">>,
     <<"f","a","i","l","s","a","f","e">>,
     <<"c","r","i","t","i","c","a","l">>,
     <<"e","k","f">>,
     <<"i","n","c","o","n","s","i","s","t","e","n","t">>,
     <<"r","c"," ","l","o","s","t">>,
     <<"v","o","l","t","a","g","e"," ","s","p","i","k","e">>,
     <<"a","l","t","i","t","u","d","e"," ","j","u","m","p">>,
     <<"g","p","s"," ","p","o","s","i","t","i","o","n"," ","j","u","m","p">>}

At(s, i) == IF i \in 1..Len(s) THEN s[i] ELSE ""

\* the first position from i on where s holds c, Len(s) + 1 if there is none
RECURSIVE Find(_, _, _)
Find(s, c, i) ==
    IF i > Len(s) THEN Len(s) + 1
    ELSE IF s[i] = c THEN i ELSE Find(s, c, i + 1)

\* the last position where s holds c, 0 if there is none
RECURSIVE FindLast(_, _, _)
FindLast(s, c, i) ==
    IF i < 1 THEN 0
    ELSE IF s[i] = c THEN i ELSE FindLast(s, c, i - 1)

\* text.split(c)[-1]
AfterLast(s, c) == SubSeq(s, FindLast(s, c, Len(s)) + 1, Len(s))

IsSpace(c) == c \in {" ", "\n", "\t"}

\* str.strip()
RECURSIVE Strip(_)
Strip(s) ==
    IF s = <<>> THEN s
    ELSE IF IsSpace(s[1]) THEN Strip(Tail(s))
    ELSE IF IsSpace(s[Len(s)]) THEN Strip(SubSeq(s, 1, Len(s) - 1))
    ELSE s

IsDigit(c) == \E d \in 1..10 : DigitChars[d] = c

DigitOf(c) == (CHOOSE d \in 1..10 : DigitChars[d] = c) - 1

\* the first position from i on where s holds no digit
RECURSIVE DigitsEnd(_, _)
DigitsEnd(s, i) ==
    IF i > Len(s) \/ ~IsDigit(s[i]) THEN i ELSE DigitsEnd(s, i + 1)

\* int() of a run of digits
RECURSIVE NumberOf(_)
NumberOf(s) ==
    IF s = <<>> THEN 0
    ELSE NumberOf(SubSeq(s, 1, Len(s) - 1)) * 10 + DigitOf(s[Len(s)])

\* ast.literal_eval raised
Unparsed == [ok |-> FALSE, items |-> <<>>, next |-> 0]

\* the int or str literal of s that starts at i
ParseValue(s, i) ==
    IF At(s, i) = "'"
    THEN LET j == Find(s, "'", i + 1)
         IN  IF j > Len(s) THEN Unparsed
             ELSE [ok |-> TRUE, items |-> StrValue(SubSeq(s, i + 1, j - 1)),
                   next |-> j + 1]
    ELSE IF IsDigit(At(s, i))
    THEN LET j == DigitsEnd(s, i)
         IN  [ok |-> TRUE, items |-> IntValue(NumberOf(SubSeq(s, i, j - 1))),
              next |-> j]
    ELSE Unparsed

\* the 'key': value items of s from i on, separated by ", "
RECURSIVE ParseItems(_, _)
ParseItems(s, i) ==
    LET k == Find(s, "'", i + 1)
        value == ParseValue(s, k + 3)
        rest == ParseItems(s, value.next + 2)
        item == <<SubSeq(s, i + 1, k - 1), value.items>>
    IN  IF At(s, i) # "'" \/ k > Len(s) \/ At(s, k + 1) # ":" \/ At(s, k + 2) # " "
        THEN Unparsed
        ELSE IF ~value.ok THEN Unparsed
        ELSE IF value.next > Len(s)
        THEN [ok |-> TRUE, items |-> <<item>>, next |-> value.next]
        ELSE IF At(s, value.next) # "," \/ At(s, value.next + 1) # " " THEN Unparsed
        ELSE IF ~rest.ok THEN Unparsed
        ELSE [ok |-> TRUE, items |-> <<item>> \o rest.items, next |-> rest.next]

\* ast.literal_eval on the dict literals that str() of a message dict writes;
\* any other text raises, or is no dict and raises at msg_dict.get
literal_eval(s) ==
    IF Len(s) >= 2 /\ s[1] = "{" /\ s[Len(s)] = "}"
    THEN IF Len(s) = 2 THEN [ok |-> TRUE, items |-> <<>>, next |-> 0]
         ELSE ParseItems(SubSeq(s, 2, Len(s) - 1), 1)
    ELSE Unparsed

\* msg_dict.get(key, 0): the last item with the key wins
DictGet(items, key) ==
    IF \E i \in 1..Len(items) : items[i][1] = key
    THEN items[CHOOSE i \in 1..Len(items) :
                  /\ items[i][1] = key
                  /\ \A j \in (i + 1)..Len(items) : items[j][1] # key][2]
    ELSE IntValue(0)

\* errors_count1 .. errors_count4, then errors_comm
CounterKeys ==
    <<<<"e","r","r","o","r","s","_","c","o","u","n","t","1">>,
      <<"e","r","r","o","r","s","_","c","o","u","n","t","2">>,
      <<"e","r","r","o","r","s","_","c","o","u","n","t","3">>,
      <<"e","r","r","o","r","s","_","c","o","u","n","t","4">>,
      <<"e","r","r","o","r","s","_","c","o","m","m">>>>

\* any(msg_dict.get(f"errors_count{i}", 0) > 0 ...) or msg_dict.get("errors_comm", 0) > 0:
\* "positive", "zero", or "raises" when a str is compared with 0 first
RECURSIVE CountersSay(_, _)
CountersSay(items, i) ==
    IF i > Len(CounterKeys) THEN "zero"
    ELSE LET v == DictGet(items, CounterKeys[i])
         IN  IF ~v.isnum THEN "raises"
             ELSE IF v.n > 0 THEN "positive"
             ELSE CountersSay(items, i + 1)

\* mutant of ScannedText: the text is scanned as it was written
ScannedText_CaseKept(snippet) == snippet.text

\* text = snippet.get("text", "").lower()
ScannedText(snippet) == Lower(snippet.text)

AnomalyEntry(snippet, type) ==
    [timestamp |-> snippet.time, type |-> type, description |-> snippet.text]

\* the body of the loop of detect_anomalies: the entries appended for one snippet
ScanSnippet(snippet) ==
    LET text == ScannedText(snippet)
        parsed == literal_eval(Strip(AfterLast(text, "]")))
    IN  IF AnyWordIn(keywords, text) THEN <<AnomalyEntry(snippet, "anomaly")>>
        ELSE IF Contains(text, <<"s","y","s","_","s","t","a","t","u","s">>) /\ Contains(text, <<"e","r","r","o","r">>)
        THEN IF parsed.ok /\ CountersSay(parsed.items, 1) = "positive"
             THEN <<AnomalyEntry(snippet, "sys_status_error")>>
             ELSE <<>>
        ELSE <<>>

\* the loop over the snippets from i on: stops at a snippet that is no dict,
\* on which snippet.get raises
RECURSIVE ScanFrom(_, _)
ScanFrom(snippets, i) ==
    IF i > Len(snippets) THEN [ok |-> TRUE, list |-> <<>>]
    ELSE IF ~snippets[i].isdict THEN [ok |-> FALSE, list |-> <<>>]
    ELSE LET rest == ScanFrom(snippets, i + 1)
         IN  [ok |-> rest.ok, list |-> ScanSnippet(snippets[i]) \o rest.list]

\* mutant of OnFailure: what was built before the failure is returned too
OnFailure_KeepPartial(partial, message) == partial \o <<[error |-> message]>>

\* except Exception as e: return [{"error": ...}]
OnFailure(partial, message) == <<[error |-> message]>>

\* disk is what is on disk for the fileKey
detect_anomalies(disk) ==
    LET scan == ScanFrom(disk.snippets, 1)
    IN  IF ~disk.readable THEN OnFailure(<<>>, "Failed to detect anomalies")
        ELSE IF ~scan.ok THEN OnFailure(scan.list, "Failed to detect anomalies")
        ELSE scan.list

(***************************************************************************)
(* tools.retrieve_snippets                                                 *)
(***************************************************************************)
\* snippets[i] can be read: Python counts a negative i from the end
InRange(snippets, i) == -Len(snippets) <= i /\ i < Len(snippets)

\* snippets[i]
PyIndex(snippets, i) ==
    IF i >= 0 THEN snippets[i + 1] ELSE snippets[Len(snippets) + i + 1]

SnippetEntry(snippet) ==
    [timestamp |-> snippet.time, msg_type |-> snippet.msg_type,
     text |-> snippet.text]

\* for i in I[0]: results.append(...), from position j of the labels on
RECURSIVE FormatFrom(_, _, _)
FormatFrom(snippets, labels, j) ==
    IF j > Len(labels) THEN [ok |-> TRUE, list |-> <<>>]
    ELSE IF ~InRange(snippets, labels[j]) THEN [ok |-> FALSE, list |-> <<>>]
    ELSE IF ~PyIndex(snippets, labels[j]).isdict THEN [ok |-> FALSE, list |-> <<>>]
    ELSE LET rest == FormatFrom(snippets, labels, j + 1)
         IN  [ok |-> rest.ok,
              list |-> <<SnippetEntry(PyIndex(snippets, labels[j]))>> \o rest.list]

\* search_ok: model.encode and index.search return; labels is I[0]
retrieve_snippets(disk, search_ok, labels) ==
    LET format == FormatFrom(disk.snippets, labels, 1)
    IN  IF ~disk.index_ok \/ ~disk.readable \/ ~search_ok
        THEN OnFailure(<<>>, "Failed to retrieve snippets")
        ELSE IF ~format.ok THEN OnFailure(format.list, "Failed to retrieve snippets")
        ELSE format.list

\* the injective sequences of length n over the set s
RECURSIVE Arrangements(_, _)
Arrangements(s, n) ==
    IF n = 0 THEN {<<>>}
    ELSE UNION {{<<x>> \o rest : rest \in Arrangements(s \ {x}, n - 1)} : x \in s}

\* what index.search(q_emb, k) can return as I[0] for an index of n vectors:
\* the k nearest in some order; when n < k the list is filled up with -1
SearchLabels(n, k) ==
    IF k <= n THEN Arrangements(0..(n - 1), k)
    ELSE {found \o [j \in 1..(k - n) |-> -1] : found \in Arrangements(0..(n - 1), n)}

(***************************************************************************)
(* What save_faiss_index leaves on disk for a fileKey                      *)
(***************************************************************************)
\* the most snippets of a stored file
MaxSnippets == 2

\* the largest k a caller passes
MaxK == 3

\* an entry of the snippets file that is no dict
NotADict == [isdict |-> FALSE, text |-> <<>>, msg_type |-> <<>>, time |-> <<>>,
             msg |-> <<>>]

SnippetKinds ==
    { DictSnippet(<<"S","Y","S","_","S","T","A","T","U","S">>, Digits(1),
          <<<<<<"e","r","r","o","r","s","_","c","o","u","n","t","1">>, IntValue(0)>>,
           <<<<"e","r","r","o","r","s","_","c","o","m","m">>, IntValue(0)>>>>),
      DictSnippet(<<"S","Y","S","_","S","T","A","T","U","S">>, Digits(2),
          <<<<<<"e","r","r","o","r","s","_","c","o","u","n","t","1">>, IntValue(2)>>,
           <<<<"e","r","r","o","r","s","_","c","o","m","m">>, IntValue(0)>>>>),
      SnippetOf(<<"B","A","T","T","E","R","Y">>, Digits(3), <<"B","a","t","t","e","r","y"," ","l","o","w"," ","d","e","t","e","c","t","e","d">>, <<>>),
      DictSnippet(<<"S","Y","S","_","S","T","A","T","U","S">>, <<>>,
          <<<<<<"m","a","v","p","a","c","k","e","t","t","y","p","e">>, StrValue(<<"S","Y","S","_","S","T","A","T","U","S">>)>>,
           <<<<"l","o","a","d">>, IntValue(500)>>,
           <<<<"e","r","r","o","r","s","_","c","o","m","m">>, IntValue(1)>>,
           <<<<"e","r","r","o","r","s","_","c","o","u","n","t","4">>, IntValue(0)>>>>),
      SnippetOf(<<"G","P","S","_","R","A","W","_","I","N","T">>, Digits(5), <<"G","P","S"," ","f","i","x"," ","t","y","p","e"," ","3"," ","w","i","t","h"," ","9"," ","s","a","t","e","l","l","i","t","e","s">>, <<>>),
      DictSnippet(<<"S","T","A","T","U","S","T","E","X","T">>, Digits(6),
          <<<<<<"s","e","v","e","r","i","t","y">>, IntValue(3)>>,
           <<<<"t","e","x","t">>, StrValue(<<"E","r","r","o","r"," ","c","o","m","p","a","s","s">>)>>>>),
      NotADict }

RECURSIVE SnippetLists(_)
SnippetLists(n) ==
    IF n = 0 THEN {<<>>}
    ELSE {<<>>} \cup {<<s>> \o rest : s \in SnippetKinds, rest \in SnippetLists(n - 1)}

\* index_ok: the .index file can be read; readable: the snippets file can be
\* opened and is JSON
Stores ==
    [index_ok : BOOLEAN, readable : BOOLEAN, snippets : SnippetLists(MaxSnippets)]

(***************************************************************************)
(* agents.ResponseEvaluator                                                *)
(***************************************************************************)
\* the methods that the class defines
EvaluatorMethods == {"__init__", "evaluate"}

\* the methods that callers and tests call on an evaluator
CalledMethods == {"evaluate", "should_use_tool"}

\* the first position from i on where sub starts in s, 0 if there is none
RECURSIVE IndexOf(_, _, _)
IndexOf(s, sub, i) ==
    IF i + Len(sub) - 1 > Len(s) THEN 0
    ELSE IF SubSeq(s, i, i + Len(sub) - 1) = sub THEN i
    ELSE IndexOf(s, sub, i + 1)

\* s.split(sep)[0]
SplitFirst(s, sep) ==
    LET at == IndexOf(s, sep, 1)
    IN  IF at = 0 THEN s ELSE SubSeq(s, 1, at - 1)

\* s.split(sep)[1], for an s that contains sep
SplitSecond(s, sep) ==
    LET at == IndexOf(s, sep, 1)
        rest == SubSeq(s, at + Len(sep), Len(s))
    IN  SplitFirst(rest, sep)

RouteMarker == <<"r","o","u","t","e",":">>

ReasonMarker == <<"r","e","a","s","o","n",":">>

\* evaluate with the route taken as it stands in the reply's line
RouteAndReason_Unstripped(response_content) ==
    LET content == Lower(response_content)
    IN  IF Contains(content, RouteMarker)
        THEN <<SplitFirst(SplitSecond(content, RouteMarker), <<"\n">>),
               IF Contains(content, ReasonMarker)
               THEN Strip(SplitSecond(content, ReasonMarker)) ELSE <<>>>>
        ELSE <<<<"e","m","b","e","d","d","i","n","g">>, <<"D","e","f","a","u","l","t","i","n","g"," ","t","o"," ","e","m","b","e","d","d","i","n","g"," ","r","e","s","p","o","n","s","e">>>>

\* what evaluate makes of response.content
RouteAndReason(response_content) ==
    LET content == Lower(response_content)
    IN  IF Contains(content, RouteMarker)
        THEN <<Strip(SplitFirst(SplitSecond(content, RouteMarker), <<"\n">>)),
               IF Contains(content, ReasonMarker)
               THEN Strip(SplitSecond(content, ReasonMarker)) ELSE <<>>>>
        ELSE <<<<"e","m","b","e","d","d","i","n","g">>, <<"D","e","f","a","u","l","t","i","n","g"," ","t","o"," ","e","m","b","e","d","d","i","n","g"," ","r","e","s","p","o","n","s","e">>>>

\* what evaluate returns from its except clause
EvaluationError == <<<<"e","m","b","e","d","d","i","n","g">>, <<"E","r","r","o","r"," ","i","n"," ","e","v","a","l","u","a","t","i","o","n",","," ","d","e","f","a","u","l","t","i","n","g"," ","t","o"," ","e","m","b","e","d","d","i","n","g"," ","r","e","s","p","o","n","s","e">>>>

\* how a reply of the LLM can begin
Openings ==
    {<<>>,
     <<"S","u","r","e",".","\n">>,
     <<"O","k",":","\n">>,
     <<"D","e","c","i","s","i","o","n",":","\n">>,
     <<" ">>}

\* its routing line, if it has one
RouteLines ==
    {<<>>,
     <<"r","o","u","t","e",":"," ","e","m","b","e","d","d","i","n","g">>,
     <<"R","o","u","t","e",":"," ","t","o","o","l",":","r","e","t","r","i","e","v","e","_","s","n","i","p","p","e","t","s">>,
     <<"r","o","u","t","e",":"," ","t","o","o","l",":","d","e","t","e","c","t","_","a","n","o","m","a","l","i","e","s">>,
     <<"R","O","U","T","E",":"," "," ","c","h","a","t"," ">>,
     <<"r","o","u","t","e",":"," ","c","h","a","t","\n","r","o","u","t","e",":"," ","e","m","b","e","d","d","i","n","g">>,
     <<"r","o","u","t","e",":"," ","e","m","b","e","d","d","i","n","g"," ","(","r","o","u","t","e",":"," ","c","h","a","t"," ","i","f"," ","u","n","s","u","r","e",")">>,
     <<"r","o","u","t","e",":"," ","t","o","o","l",":","s","e","a","r","c","h","_","a","r","d","u","p","i","l","o","t","_","d","o","c","s">>}

\* how it can go on
ReasonLines ==
    {<<>>,
     <<"\n","r","e","a","s","o","n",":"," ","n","e","e","d","s"," ","d","a","t","a">>,
     <<"\n","R","e","a","s","o","n",":"," ","A","n","s","w","e","r"," ","i","s"," ","c","o","m","p","l","e","t","e",".","\n","E","n","d",".">>,
     <<"\n","b","e","c","a","u","s","e"," ","t","h","e"," ","a","n","s","w","e","r"," ","i","s"," ","c","o","m","p","l","e","t","e">>}

\* the replies of the evaluating LLM
Contents ==
    {opening \o route \o reason :
        opening \in Openings, route \in RouteLines, reason \in ReasonLines}

(***************************************************************************)
(* main.py: the API server                                                 *)
(***************************************************************************)
MaxRequests == 2

MaxSockets == 2

Requests == 1..MaxRequests

Sockets == 1..MaxSockets

\* request.fileKey is None
NoKey == 0

\* str(uuid.uuid4()) in the handler of request r
Uuid(r) == r

\* a fileKey that a client made up
StrangerKey == MaxRequests + 1

\* Path(file.filename).suffix
Extensions == {".bin", ".tlog"}

\* a request that has not arrived; status is the HTTP status once it is answered
Idle ==
    [op |-> "", pc |-> "idle", key |-> NoKey, idx |-> 0, live |-> {},
     sent |-> <<>>, status |-> 0, unindexed |-> FALSE]

Arrived(op, key) == [Idle EXCEPT !.op = op, !.key = key]

\* the handler returns or raises HTTPException(code)
Responded(req, code) ==
    [req EXCEPT !.pc = "done", !.status = code, !.idx = 0,
                !.live = {}, !.sent = <<>>]

SetOf(seq) == {seq[i] : i \in 1..Len(seq)}

\* notify_embedding_status awaits send_text on the connection at position i
\* of active_connections; live are the connections registered since the
\* call began, sent the ones that send_text was called on
Notifying(req, phase, i) ==
    [req EXCEPT !.pc = phase, !.idx = i,
                !.live = IF req.pc = phase THEN @ ELSE SetOf(active_connections),
                !.sent = IF req.pc = phase THEN Append(@, active_connections[i])
                         ELSE <<active_connections[i]>>]

\* the stored entry; chat stores one without file_extension
Entry(ext) == [file_extension |-> ext]

\* file_path.unlink() for the .bin file of each key
WithoutBinFiles(files, keys) == files \ {<<k, ".bin">> : k \in keys}

(***************************************************************************)
(* Two MAVLinkParser instances, each decoding its own file                 *)
(***************************************************************************)
\* recv_match() calls that do not report end-of-stream, per parser of the two
MaxFramesEach == 2

Instances == {1, 2}

\* the frames that the file of parser i can deliver
FileOf(i) ==
    IF i = 1
    THEN { Gpi(1000, 0, 0, 5000),
           Frame("PARAM_VALUE", Absent, Absent, Absent, "none", [param_value |-> 1]) }
    ELSE { Gpi(3000, 200, 0, 6000),
           Stamped("RAW_IMU", 4000, "to_dict", [xacc |-> 1]) }

\* self.messages, self.message_types and self.metadata as __init__ makes them
NewContainers ==
    [messages |-> <<>>,
     message_types |-> {},
     metadata |-> [message_count |-> 0, first_timestamp |-> None,
                   last_timestamp |-> None, corrupted_messages |-> 0,
                   duration |-> None]]

\* self.current_timestamp as __init__ makes it, and the locals of parse()
NewLocals ==
    [current_timestamp |-> None, trajectory |-> <<>>, time_trajectory |-> <<>>,
     start_altitude |-> None, last_position |-> None, last_timestamp |-> None]

\* a parser whose constructor has not run
Unstarted == [pc |-> "Unconstructed", log |-> <<>>] @@ NewLocals

\* containers kept in one place for all instances, as class attributes are
Owner_Class(i) == 0

\* where the containers of parser i are kept: __init__ binds new ones to self
Owner(i) == i

(***************************************************************************)
(* The caller holds a path and has not constructed the parser yet          *)
(***************************************************************************)
Init ==
    /\ pc = "Unconstructed"
    /\ \/ file_exists = TRUE /\ log_frames \in LogKinds
       \/ file_exists = FALSE /\ log_frames = {}
    /\ log = <<>>
    /\ file = None
    /\ reader_broken = FALSE
    /\ mlog_open = FALSE
    /\ messages = <<>>
    /\ message_types = {}
    /\ metadata = [message_count |-> 0, first_timestamp |-> None,
                   last_timestamp |-> None, corrupted_messages |-> 0,
                   duration |-> None]
    /\ current_timestamp = None
    /\ trajectory = <<>>
    /\ time_trajectory = <<>>
    /\ start_altitude = None
    /\ last_position = None
    /\ last_timestamp = None
    /\ attitude = None
    /\ flight_modes = <<>>
    /\ vehicle_type = ""
    /\ result_keys = {}
    /\ returned = None
    /\ question = <<>>
    /\ query_type = ""
    /\ parsers = [i \in Instances |-> Unstarted]
    /\ store = <<>>
    /\ saved = None
    /\ tool_call = None
    /\ tool_result = None
    /\ eval_pc = "idle"
    /\ eval_call = ""
    /\ llm_content = None
    /\ eval_result = None
    /\ file_data = <<>>
    /\ uploads = {}
    /\ faiss_indexes = {}
    /\ active_connections = <<>>
    /\ closed_connections = {}
    /\ requests = [r \in Requests |-> Idle]
    /\ orch_pc = "idle"
    /\ orch_args = [fileKey |-> FALSE, embedding_snippet |-> FALSE]
    /\ orch_decision = None
    /\ orch_returned = ""

\* MAVLinkParser(file_path): os.path.getsize(file_path) raises for a missing file
Construct ==
    /\ pc = "Unconstructed"
    /\ pc' = IF file_exists THEN "Constructed" ELSE "ConstructFailed"
    /\ messages' = <<>>
    /\ message_types' = {}
    /\ metadata' = [message_count |-> 0, first_timestamp |-> None,
                    last_timestamp |-> None, corrupted_messages |-> 0,
                    duration |-> None]
    /\ current_timestamp' = None
    /\ UNCHANGED <<file_exists, log_frames, log, file, reader_broken, mlog_open,
                   trajectory, time_trajectory, start_altitude, last_position,
                   last_timestamp, attitude, flight_modes, vehicle_type,
                   result_keys, returned>>
    /\ UNCHANGED outside_parser

\* parse(): mavutil.mavlink_connection succeeds, the locals are initialised
Open ==
    /\ pc = "Constructed"
    /\ pc' = "Streaming"
    /\ mlog_open' = TRUE
    /\ trajectory' = <<>>
    /\ time_trajectory' = <<>>
    /\ start_altitude' = None
    /\ last_position' = None
    /\ last_timestamp' = None
    /\ UNCHANGED <<file_exists, log_frames, log, file, reader_broken, messages,
                   message_types, metadata, current_timestamp, attitude,
                   flight_modes, vehicle_type, result_keys, returned>>
    /\ UNCHANGED outside_parser

\* parse(): mavutil.mavlink_connection raises, the outer except re-raises
OpenFails ==
    /\ pc = "Constructed"
    /\ pc' = "Failed"
    /\ UNCHANGED <<file_exists, log_frames, log, file, reader_broken, mlog_open,
                   messages, message_types, metadata,
                   current_timestamp, trajectory, time_trajectory, start_altitude,
                   last_position, last_timestamp, attitude, flight_modes,
                   vehicle_type, result_keys, returned>>
    /\ UNCHANGED outside_parser

\* parse() is called again on the same parser after it returned a result; the
\* file is unchanged, so the reader replays the outcomes of the first parse
Reopen ==
    /\ pc = "Complete"
    /\ file = None
    /\ pc' = "Streaming"
    /\ file' = Some(log)
    /\ log' = <<>>
    /\ mlog_open' = TRUE
    /\ trajectory' = <<>>
    /\ time_trajectory' = <<>>
    /\ start_altitude' = None
    /\ last_position' = None
    /\ last_timestamp' = None
    /\ UNCHANGED <<file_exists, log_frames, reader_broken, messages,
                   message_types, metadata, current_timestamp, attitude,
                   flight_modes, vehicle_type, result_keys, returned>>
    /\ UNCHANGED outside_parser

\* the outcome that a replayed read repeats
Replayed == Get(file)[Len(log) + 1]

\* the file has another frame, or another failing read, after those in log
MoreToRead ==
    IF file = None THEN Len(log) < MaxFrames ELSE Len(log) < Len(Get(file))

\* the file has nothing after the reads in log
AtEndOfFile == IF file = None THEN TRUE ELSE Len(log) = Len(Get(file))

\* one iteration of the loop in which recv_match() itself raises; the error
\* is one that the next call repeats (persists) or not
RecvError ==
    /\ pc = "Streaming"
    /\ MoreToRead
    /\ IF file = None THEN TRUE ELSE ~Replayed.received
    /\ \E persists \in BOOLEAN :
          /\ persists => file = None
          /\ reader_broken' = (reader_broken \/ persists)
    /\ log' = Append(log, [received |-> FALSE, frame |-> NoFrame])
    /\ metadata' = HandleFrameError(metadata)
    /\ UNCHANGED <<pc, file_exists, log_frames, file, mlog_open, messages,
                   message_types, current_timestamp,
                   trajectory, time_trajectory, start_altitude, last_position,
                   last_timestamp, attitude, flight_modes, vehicle_type,
                   result_keys, returned>>
    /\ UNCHANGED outside_parser

\* mutant of TimeEntry: the altitude is left out
TimeEntry_FromGround(lon, lat, relative_alt, timestamp) ==
    <<lon, lat, 0, ToMillis(timestamp)>>

\* time_trajectory[timestamp * 1000] = [lon, lat, relative_alt, timestamp * 1000]
TimeEntry(lon, lat, relative_alt, timestamp) ==
    <<lon, lat, relative_alt, ToMillis(timestamp)>>

\* what one iteration of the loop makes of the parser state p (the fields of
\* self and the locals of parse()) when recv_match() returns the frame msg
FrameStep(p, msg, now) ==
    LET resolved == _get_timestamp(msg, p.current_timestamp, now)
        timestamp == resolved.timestamp
        counted == [p.metadata EXCEPT
                      !.message_count = @ + 1,
                      !.first_timestamp = IF @ = None THEN Some(timestamp) ELSE @,
                      !.last_timestamp = Some(timestamp)]
        lat == Degrees(msg.fields.lat)
        lon == Degrees(msg.fields.lon)
        relative_alt == Metres(msg.fields.relative_alt)
        accepted == /\ IsPosition(msg)
                    /\ ~Raises(msg)
                    /\ EnoughTime(timestamp, p.last_timestamp)
                    /\ MovedEnough(lat, lon, relative_alt, p.last_position)
        start == NextStartAltitude(p.start_altitude, relative_alt)
    IN  [current_timestamp |-> resolved.current_timestamp,
         metadata |-> IF Raises(msg) THEN HandleFrameError(counted) ELSE counted,
         message_types |-> IF Typed(msg) THEN p.message_types \cup {msg.msg_type}
                           ELSE p.message_types,
         messages |-> IF Converted(msg)
                      THEN AppendRecord(p.messages, msg.msg_type, MsgDict(msg, timestamp))
                      ELSE IF Typed(msg) THEN WithBucket(p.messages, msg.msg_type)
                      ELSE p.messages,
         start_altitude |-> IF accepted THEN start ELSE p.start_altitude,
         trajectory |-> IF accepted
                        THEN Append(p.trajectory,
                               <<lon, lat, relative_alt - Get(start), ToMillis(timestamp)>>)
                        ELSE p.trajectory,
         time_trajectory |-> IF accepted
                             THEN (ToMillis(timestamp) :>
                                      TimeEntry(lon, lat, relative_alt, timestamp))
                                  @@ p.time_trajectory
                             ELSE p.time_trajectory,
         last_position |-> IF accepted THEN Some(<<lat, lon, relative_alt>>)
                           ELSE p.last_position,
         last_timestamp |-> IF accepted THEN Some(timestamp) ELSE p.last_timestamp]

\* the fields of self and the locals of parse() of the parser under study
Self ==
    [current_timestamp |-> current_timestamp, metadata |-> metadata,
     message_types |-> message_types, messages |-> messages,
     start_altitude |-> start_altitude, trajectory |-> trajectory,
     time_trajectory |-> time_trajectory, last_position |-> last_position,
     last_timestamp |-> last_timestamp]

\* one iteration of the loop in which recv_match() returns the frame msg
ProcessFrame(msg, now) ==
    LET q == FrameStep(Self, msg, now)
    IN  /\ log' = Append(log, [received |-> TRUE, frame |-> msg])
        /\ current_timestamp' = q.current_timestamp
        /\ metadata' = q.metadata
        /\ message_types' = q.message_types
        /\ messages' = q.messages
        /\ start_altitude' = q.start_altitude
        /\ trajectory' = q.trajectory
        /\ time_trajectory' = q.time_trajectory
        /\ last_position' = q.last_position
        /\ last_timestamp' = q.last_timestamp

\* the frames that the next recv_match() can return
NextFrames ==
    IF file = None THEN log_frames
    ELSE IF Replayed.received THEN {Replayed.frame} ELSE {}

RecvFrame ==
    /\ pc = "Streaming"
    /\ ~reader_broken
    /\ MoreToRead
    /\ \E msg \in NextFrames : \E now \in WallClock : ProcessFrame(msg, now)
    /\ UNCHANGED <<pc, file_exists, log_frames, file, reader_broken, mlog_open,
                   attitude, flight_modes, vehicle_type, result_keys, returned>>
    /\ UNCHANGED outside_parser

\* the keys of the dict that parse() returns
ResultKeys ==
    {"messages", "metadata", "trajectory_data", "attitude", "flight_modes",
     "vehicle_type", "types"}

\* recv_match() returns None: the loop ends and parse() runs to its return,
\* or to the KeyError that _process_attitude raises.  parse() never closes
\* mlog: after the return the interpreter's garbage collector may or may not
\* have released it, and a raised exception keeps the frame that holds it.
EndOfStream ==
    /\ pc = "Streaming"
    /\ ~reader_broken
    /\ AtEndOfFile
    /\ metadata' = IF AttitudeRaises(messages) THEN WithDuration(metadata)
                    ELSE WithTrajectory(WithDuration(metadata), trajectory)
    /\ IF AttitudeRaises(messages)
       THEN /\ pc' = "Failed"
            /\ UNCHANGED <<messages, attitude, flight_modes, vehicle_type,
                           result_keys, returned, mlog_open>>
       ELSE /\ pc' = "Complete"
            /\ attitude' = Some(_process_attitude(messages))
            /\ flight_modes' = _process_flight_modes(messages)
            /\ vehicle_type' = _get_vehicle_type(messages)
            /\ messages' = WithPositionBucket(messages)
            /\ result_keys' = ResultKeys
            /\ returned' = IF returned = None
                           THEN Some([messages |-> messages',
                                      metadata |-> metadata',
                                      trajectory |-> trajectory])
                           ELSE returned
            /\ mlog_open' \in BOOLEAN
    /\ UNCHANGED <<file_exists, log_frames, log, file, reader_broken,
                   message_types, current_timestamp, trajectory,
                   time_trajectory, start_altitude, last_position, last_timestamp>>
    /\ UNCHANGED outside_parser

Next == Construct \/ Open \/ OpenFails \/ RecvError \/ RecvFrame \/ EndOfStream

Spec == Init /\ [][Next]_vars

\* a question arrives, once the one before it has been classified
Ask ==
    /\ question = <<>> \/ query_type # ""
    /\ \E q \in Questions : question' = q
    /\ query_type' = ""
    /\ UNCHANGED outside_query

\* classify_query_type(question) returns
Classify ==
    /\ question # <<>>
    /\ query_type = ""
    /\ query_type' = classify_query_type(question)
    /\ UNCHANGED <<outside_query, question>>

NextClassify == Ask \/ Classify

\* the classifier is a module-level function: no parser takes part
InitClassify == Init /\ ~file_exists

SpecClassify == InitClassify /\ [][NextClassify]_vars

\* the same parser with a second call of parse()
NextReparse == Next \/ Reopen

SpecReparse == Init /\ [][NextReparse]_vars

(***************************************************************************)
(* Two parsers side by side: each step is a step of one of them            *)
(***************************************************************************)
\* the fields of self and the locals of parse() that parser i works on
StateOf(i) ==
    LET own == store[Owner(i)]
        me == parsers[i]
    IN  [current_timestamp |-> me.current_timestamp, metadata |-> own.metadata,
         message_types |-> own.message_types, messages |-> own.messages,
         start_altitude |-> me.start_altitude, trajectory |-> me.trajectory,
         time_trajectory |-> me.time_trajectory,
         last_position |-> me.last_position,
         last_timestamp |-> me.last_timestamp]

\* parser i takes the state p as its own
Becomes(i, p, read) ==
    /\ parsers' = [parsers EXCEPT ![i] =
                      [pc |-> "Streaming", log |-> Append(@.log, read),
                       current_timestamp |-> p.current_timestamp,
                       trajectory |-> p.trajectory,
                       time_trajectory |-> p.time_trajectory,
                       start_altitude |-> p.start_altitude,
                       last_position |-> p.last_position,
                       last_timestamp |-> p.last_timestamp]]
    /\ store' = [store EXCEPT ![Owner(i)] =
                      [messages |-> p.messages, message_types |-> p.message_types,
                       metadata |-> p.metadata]]

\* recv_match() raised: the except clause of the loop
ErrorStep(p) == [p EXCEPT !.metadata = HandleFrameError(@)]

\* what parse() does to self between the loop and its return
Finish(p) ==
    [p EXCEPT !.metadata = WithTrajectory(WithDuration(@), p.trajectory),
              !.messages = WithPositionBucket(@)]

\* MAVLinkParser(path) followed by parse() up to the loop
TwoStart(i) ==
    /\ parsers[i].pc = "Unconstructed"
    /\ parsers' = [parsers EXCEPT ![i] = [pc |-> "Streaming", log |-> <<>>] @@ NewLocals]
    /\ store' = (Owner(i) :> NewContainers) @@ store
    /\ UNCHANGED outside_two

TwoRecvError(i) ==
    /\ parsers[i].pc = "Streaming"
    /\ Len(parsers[i].log) < MaxFramesEach
    /\ Becomes(i, ErrorStep(StateOf(i)),
               [received |-> FALSE, frame |-> NoFrame, now |-> 0])
    /\ UNCHANGED outside_two

TwoRecvFrame(i) ==
    /\ parsers[i].pc = "Streaming"
    /\ Len(parsers[i].log) < MaxFramesEach
    /\ \E msg \in FileOf(i) : \E now \in WallClock :
          Becomes(i, FrameStep(StateOf(i), msg, now),
                  [received |-> TRUE, frame |-> msg, now |-> now])
    /\ UNCHANGED outside_two

TwoEndOfStream(i) ==
    /\ parsers[i].pc = "Streaming"
    /\ parsers' = [parsers EXCEPT ![i].pc = "Complete"]
    /\ LET p == Finish(StateOf(i))
       IN  store' = [store EXCEPT ![Owner(i)] =
                        [messages |-> p.messages,
                         message_types |-> p.message_types,
                         metadata |-> p.metadata]]
    /\ UNCHANGED outside_two

NextTwo ==
    \E i \in Instances :
        TwoStart(i) \/ TwoRecvError(i) \/ TwoRecvFrame(i) \/ TwoEndOfStream(i)

\* no third parser takes part
InitTwo == Init /\ ~file_exists

SpecTwo == InitTwo /\ [][NextTwo]_vars

(***************************************************************************)
(* Calls of the tools on what is on disk for one fileKey                   *)
(***************************************************************************)
\* save_faiss_index has written the index and the snippets file; what a later
\* call finds on disk is one of Stores
SaveIndex ==
    /\ saved = None
    /\ \E disk \in Stores : saved' = Some(disk)
    /\ UNCHANGED <<tool_call, tool_result, outside_tools>>

DetectAnomalies ==
    /\ saved # None
    /\ tool_call = None
    /\ tool_call' = Some([tool |-> "detect_anomalies", k |-> 0,
                          search_ok |-> TRUE, labels |-> <<>>])
    /\ tool_result' = Some(detect_anomalies(Get(saved)))
    /\ UNCHANGED <<saved, outside_tools>>

RetrieveSnippets ==
    /\ saved # None
    /\ tool_call = None
    /\ \E k \in 1..MaxK : \E search_ok \in BOOLEAN :
          \E labels \in SearchLabels(Len(Get(saved).snippets), k) :
             /\ tool_call' = Some([tool |-> "retrieve_snippets", k |-> k,
                                   search_ok |-> search_ok, labels |-> labels])
             /\ tool_result' = Some(retrieve_snippets(Get(saved), search_ok, labels))
    /\ UNCHANGED <<saved, outside_tools>>

\* the caller has used the result
ToolDone ==
    /\ tool_call # None
    /\ tool_call' = None
    /\ tool_result' = None
    /\ UNCHANGED <<saved, outside_tools>>

NextTools == SaveIndex \/ DetectAnomalies \/ RetrieveSnippets \/ ToolDone

\* the tools are module-level functions: no parser takes part
InitTools == Init /\ ~file_exists

SpecTools == InitTools /\ [][NextTools]_vars

(***************************************************************************)
(* A call on a ResponseEvaluator                                           *)
(***************************************************************************)
\* evaluator.<name>(...): a name that the class does not define raises
\* AttributeError; evaluate runs up to await self.llm.ainvoke(...)
CallMethod ==
    /\ eval_pc = "idle"
    /\ \E name \in CalledMethods :
          /\ eval_call' = name
          /\ eval_pc' = IF name \in EvaluatorMethods THEN "awaiting" ELSE "raised"
    /\ UNCHANGED <<llm_content, eval_result, outside_eval>>

\* ainvoke returns a response
LlmReplies ==
    /\ eval_pc = "awaiting"
    /\ \E response_content \in Contents :
          /\ llm_content' = Some(response_content)
          /\ eval_result' = Some(RouteAndReason(response_content))
    /\ eval_pc' = "returned"
    /\ UNCHANGED <<eval_call, outside_eval>>

\* ainvoke raises
LlmFails ==
    /\ eval_pc = "awaiting"
    /\ llm_content' = None
    /\ eval_result' = Some(EvaluationError)
    /\ eval_pc' = "returned"
    /\ UNCHANGED <<eval_call, outside_eval>>

NextEvaluate == CallMethod \/ LlmReplies \/ LlmFails

\* the evaluator takes no part in parsing
InitEvaluate == Init /\ ~file_exists

SpecEvaluate == InitEvaluate /\ [][NextEvaluate]_vars

(***************************************************************************)
(* The API server: each action runs a handler from one await to the next   *)
(***************************************************************************)
\* requests arrive in the order of their numbers
Arrives(r) ==
    /\ requests[r].pc = "idle"
    /\ IF r = 1 THEN TRUE ELSE requests[r - 1].pc # "idle"

\* build_snippets, create_embeddings and save_faiss_index for req.key, then
\* the second notification up to its first send_text, or the response
Embed(r, req, embeds) ==
    IF ~embeds
    THEN /\ requests' = [requests EXCEPT ![r] = Responded(req, 500)]
         /\ UNCHANGED faiss_indexes
    ELSE /\ faiss_indexes' = faiss_indexes \cup {req.key}
         /\ requests' = [requests EXCEPT ![r] =
                IF active_connections = <<>> THEN Responded(req, 200)
                ELSE Notifying(req, "notify_created", 1)]

\* the file is saved as key + ext and parsed; the entry is stored and the
\* first notification runs up to its first send_text
SaveAndParse(r, req, ext, parses, embeds) ==
    /\ uploads' = uploads \cup {<<req.key, ext>>}
    /\ IF ~parses
       THEN /\ requests' = [requests EXCEPT ![r] = Responded(req, 500)]
            /\ UNCHANGED <<file_data, faiss_indexes>>
       ELSE /\ file_data' = (req.key :> Entry(Some(ext))) @@ file_data
            /\ IF active_connections = <<>>
               THEN Embed(r, req, embeds)
               ELSE /\ requests' = [requests EXCEPT ![r] =
                           Notifying(req, "notify_creating", 1)]
                    /\ UNCHANGED faiss_indexes

\* POST /api/upload
Upload(r) ==
    /\ Arrives(r)
    /\ \E ext \in Extensions, parses \in BOOLEAN, embeds \in BOOLEAN :
          SaveAndParse(r, Arrived("upload", Uuid(r)), ext, parses, embeds)
    /\ UNCHANGED <<active_connections, closed_connections, outside_server>>

\* POST /api/open-sample
OpenSample(r) ==
    /\ Arrives(r)
    /\ \E sample_exists \in BOOLEAN, parses \in BOOLEAN, embeds \in BOOLEAN :
          IF sample_exists
          THEN SaveAndParse(r, Arrived("open_sample", Uuid(r)), ".tlog", parses, embeds)
          ELSE /\ requests' = [requests EXCEPT ![r] =
                      Responded(Arrived("open_sample", Uuid(r)), 500)]
               /\ UNCHANGED <<file_data, uploads, faiss_indexes>>
    /\ UNCHANGED <<active_connections, closed_connections, outside_server>>

\* send_text has returned in notify_embedding_status: the for loop takes the
\* next position of active_connections as it is now
Resume(r) ==
    LET req == requests[r]
    IN  /\ req.pc \in {"notify_creating", "notify_created"}
        /\ IF req.idx + 1 <= Len(active_connections)
           THEN /\ requests' = [requests EXCEPT ![r] = Notifying(req, req.pc, req.idx + 1)]
                /\ UNCHANGED faiss_indexes
           ELSE IF req.pc = "notify_creating"
           THEN \E embeds \in BOOLEAN : Embed(r, req, embeds)
           ELSE /\ requests' = [requests EXCEPT ![r] = Responded(req, 200)]
                /\ UNCHANGED faiss_indexes
        /\ UNCHANGED <<file_data, uploads, active_connections, closed_connections,
                       outside_server>>

\* the keys that a client has been given
ReturnedKeys ==
    {requests[r].key : r \in {q \in Requests :
        /\ requests[q].op \in {"upload", "open_sample"}
        /\ requests[q].status = 200}}

\* POST /api/chat up to the await of the orchestrator
Chat(r) ==
    /\ Arrives(r)
    /\ \E key \in {NoKey, StrangerKey} \cup ReturnedKeys,
          sample_exists \in BOOLEAN, parses \in BOOLEAN, embeds \in BOOLEAN :
          LET req == Arrived("chat", key)
              answering == [req EXCEPT !.pc = "answering"]
          IN  IF key = NoKey \/ key \in DOMAIN file_data
              THEN /\ requests' = [requests EXCEPT ![r] =
                          [answering EXCEPT !.unindexed =
                               key # NoKey /\ key \notin faiss_indexes]]
                   /\ UNCHANGED <<file_data, uploads, faiss_indexes>>
              ELSE IF ~sample_exists
              THEN /\ requests' = [requests EXCEPT ![r] = Responded(req, 404)]
                   /\ UNCHANGED <<file_data, uploads, faiss_indexes>>
              ELSE /\ uploads' = uploads \cup {<<key, ".tlog">>}
                   /\ IF ~parses
                      THEN /\ requests' = [requests EXCEPT ![r] = Responded(req, 500)]
                           /\ UNCHANGED <<file_data, faiss_indexes>>
                      ELSE /\ file_data' = (key :> Entry(None)) @@ file_data
                           /\ IF ~embeds
                              THEN /\ requests' = [requests EXCEPT ![r] = Responded(req, 500)]
                                   /\ UNCHANGED faiss_indexes
                              ELSE /\ requests' = [requests EXCEPT ![r] = answering]
                                   /\ faiss_indexes' = faiss_indexes \cup {key}
    /\ UNCHANGED <<active_connections, closed_connections, outside_server>>

\* the orchestrator has answered
Answer(r) ==
    /\ requests[r].pc = "answering"
    /\ requests' = [requests EXCEPT ![r] = Responded(@, 200)]
    /\ UNCHANGED <<file_data, uploads, faiss_indexes, active_connections,
                   closed_connections, outside_server>>

\* POST /api/clear-history
ClearHistory(r) ==
    /\ Arrives(r)
    /\ uploads' = WithoutBinFiles(uploads, DOMAIN file_data)
    /\ file_data' = <<>>
    /\ requests' = [requests EXCEPT ![r] = Responded(Arrived("clear", NoKey), 200)]
    /\ UNCHANGED <<faiss_indexes, active_connections, closed_connections,
                   outside_server>>

\* websocket_endpoint: accept() has returned; the sockets are numbered in the
\* order in which they are accepted
Connect(ws) ==
    /\ ws \notin SetOf(active_connections)
    /\ ws \notin closed_connections
    /\ \A earlier \in 1..(ws - 1) :
          earlier \in SetOf(active_connections) \cup closed_connections
    /\ active_connections' = Append(active_connections, ws)
    /\ UNCHANGED <<file_data, uploads, faiss_indexes, closed_connections,
                   requests, outside_server>>

\* websocket_endpoint: receive_text() has raised
Disconnect(ws) ==
    /\ ws \in SetOf(active_connections)
    /\ active_connections' =
          SelectSeq(active_connections, LAMBDA c : c # ws)
    /\ closed_connections' = closed_connections \cup {ws}
    /\ requests' = [r \in Requests |-> [requests[r] EXCEPT !.live = @ \ {ws}]]
    /\ UNCHANGED <<file_data, uploads, faiss_indexes, outside_server>>

NextServer ==
    \/ \E r \in Requests :
          \/ Upload(r)
          \/ OpenSample(r)
          \/ Chat(r)
          \/ Answer(r)
          \/ Resume(r)
          \/ ClearHistory(r)
    \/ \E ws \in Sockets : Connect(ws) \/ Disconnect(ws)

\* the server takes no part in the parse under study
InitServer == Init /\ ~file_exists

SpecServer == InitServer /\ [][NextServer]_vars

(***************************************************************************)
(* FlightLogAgentOrchestrator.answer_question, from one await to the next  *)
(***************************************************************************)
ToolPrefix == <<"t","o","o","l",":">>

\* route.startswith("tool:")
IsToolRoute(route) ==
    Len(route) >= Len(ToolPrefix) /\ SubSeq(route, 1, Len(ToolPrefix)) = ToolPrefix

\* the names that the tool branch knows
ToolNames == {<<"r","e","t","r","i","e","v","e","_","s","n","i","p","p","e","t","s">>,
              <<"d","e","t","e","c","t","_","a","n","o","m","a","l","i","e","s">>}

\* the awaits that no try statement encloses
UnguardedAwaits == {"validating_snippet", "refining_snippet"}

\* the awaits of the try statement of the chat without a flight log
ChatAwaits == {"chatting", "searching_docs", "synthesizing_docs"}

\* the awaits of the inner try statement of the tool branch
ToolAwaits == {"validating_tool", "synthesizing_tool"}

\* the awaits of the outer try statement of the routing
RoutingAwaits == {"asking", "refining"}

\* the awaits after which the content of the reply is returned
LastAwaits == {"refining_snippet", "synthesizing_docs", "refining", "synthesizing_tool"}

\* where answer_question goes with the route of the evaluator
AfterRoute(route) ==
    IF route = <<"e","m","b","e","d","d","i","n","g">> THEN "refining"
    ELSE IF IsToolRoute(route)
    THEN IF SplitSecond(route, <<":">>) \in ToolNames
         THEN "validating_tool" ELSE "returned"
    ELSE "refining"

\* answer_question(message, fileKey, chatHistory, embedding_snippet) is called
\* and runs up to its first await
AnswerQuestion ==
    /\ orch_pc = "idle"
    /\ \E fileKey \in BOOLEAN, embedding_snippet \in BOOLEAN :
          /\ orch_args' = [fileKey |-> fileKey, embedding_snippet |-> embedding_snippet]
          /\ orch_pc' = IF embedding_snippet THEN "validating_snippet"
                        ELSE IF ~fileKey THEN "chatting"
                        ELSE "asking"
    /\ UNCHANGED <<orch_decision, orch_returned, outside_orch>>

\* the call awaited returns; uses_docs says whether the chat reply names
\* search_ardupilot_docs
AwaitReturns ==
    /\ orch_pc \in UnguardedAwaits \cup ChatAwaits \cup ToolAwaits \cup RoutingAwaits
    /\ \E uses_docs \in BOOLEAN :
          orch_pc' =
             IF orch_pc \in LastAwaits THEN "returned"
             ELSE IF orch_pc = "validating_snippet" THEN "refining_snippet"
             ELSE IF orch_pc = "chatting"
             THEN IF uses_docs THEN "searching_docs" ELSE "returned"
             ELSE IF orch_pc = "searching_docs" THEN "synthesizing_docs"
             ELSE IF orch_pc = "asking" THEN "evaluating"
             ELSE "synthesizing_tool"
    /\ orch_returned' = IF orch_pc' = "returned" THEN "answer" ELSE orch_returned
    /\ UNCHANGED <<orch_args, orch_decision, outside_orch>>

\* the call awaited raises: the except clause around it, if there is one,
\* returns its message
AwaitRaises ==
    /\ orch_pc \in UnguardedAwaits \cup ChatAwaits \cup ToolAwaits \cup RoutingAwaits
    /\ orch_pc' = IF orch_pc \in UnguardedAwaits THEN "raised" ELSE "returned"
    /\ orch_returned' =
          IF orch_pc \in UnguardedAwaits THEN orch_returned
          ELSE IF orch_pc \in ChatAwaits THEN "llm_error"
          ELSE IF orch_pc \in ToolAwaits THEN "tool_error"
          ELSE "apology"
    /\ UNCHANGED <<orch_args, orch_decision, outside_orch>>

\* self.evaluator.evaluate(...) returns its pair, for a reply of the
\* evaluating LLM or for its failure, and the route is followed
EvaluatorDecides ==
    /\ orch_pc = "evaluating"
    /\ \E reply \in {Some(c) : c \in Contents} \cup {None} :
          LET decision == IF reply = None THEN EvaluationError
                          ELSE RouteAndReason(Get(reply))
          IN  /\ llm_content' = reply
              /\ eval_result' = Some(decision)
              /\ orch_decision' = Some(decision)
              /\ orch_pc' = AfterRoute(decision[1])
    /\ eval_call' = "evaluate"
    /\ eval_pc' = "returned"
    /\ orch_returned' = IF orch_pc' = "returned" THEN "unknown_tool" ELSE orch_returned
    /\ UNCHANGED <<orch_args, parser_vars, query_vars, two_vars, tools_vars,
                   server_vars>>

NextOrchestrate == AnswerQuestion \/ AwaitReturns \/ AwaitRaises \/ EvaluatorDecides

\* the orchestrator takes no part in parsing
InitOrchestrate == Init /\ ~file_exists

SpecOrchestrate == InitOrchestrate /\ [][NextOrchestrate]_vars

(***************************************************************************)
(* Properties.  They are stated over the history `log` of what the reader  *)
(* delivered and over the parser's state and result.                       *)
(***************************************************************************)
Reads == 1..Len(log)

\* the frame makes a call of the loop body raise
Damaged(f) ==
    \/ f.fault \in {"get_type", "to_dict"}
    \/ f.fault = "position" /\ f.msg_type = "GLOBAL_POSITION_INT"

\* arithmetic on the frame's time field raises while its timestamp is resolved
TimestampRaises(f) ==
    /\ ~f._timestamp.has
    /\ \/ f.time_boot_ms.has /\ ~f.time_boot_ms.ok
       \/ ~f.time_boot_ms.has /\ f.time_unix_usec.has /\ ~f.time_unix_usec.ok

\* read i delivered a frame that went through the loop body without an exception
WellFormed(i) == log[i].received /\ ~Damaged(log[i].frame)

\* read i raised in recv_match or in the loop body
LoopFailure(i) == ~log[i].received \/ Damaged(log[i].frame)

Normalized == Cardinality({i \in Reads : WellFormed(i)})

Bucket(msgs, t) == IF t \in DOMAIN msgs THEN msgs[t] ELSE <<>>

IsPrefix(a, b) == Len(a) <= Len(b) /\ SubSeq(b, 1, Len(a)) = a

RECURSIVE SumLen(_, _)
SumLen(msgs, keys) ==
    IF keys = {} THEN 0
    ELSE LET t == CHOOSE k \in keys : TRUE
         IN  Len(msgs[t]) + SumLen(msgs, keys \ {t})

ReadStep == pc = "Streaming" /\ Len(log') = Len(log) + 1

\* a read step neither ends parse() nor removes a record, and the record of a
\* well-formed frame is appended to the bucket of its type
ReadStepContinues ==
    ReadStep =>
        /\ pc' = "Streaming"
        /\ \A t \in DOMAIN messages :
              t \in DOMAIN messages' /\ IsPrefix(messages[t], messages'[t])
        /\ LET e == log'[Len(log')]
               t == e.frame.msg_type
           IN  (e.received /\ ~Damaged(e.frame)) =>
                  /\ t \in DOMAIN messages'
                  /\ Len(messages'[t]) = Len(Bucket(messages, t)) + 1
                  /\ \A k \in DOMAIN e.frame.fields :
                        messages'[t][Len(messages'[t])][k] = e.frame.fields[k]

\* C1 as stated: every exception met while receiving, timestamping, converting
\* or trajectory-processing a frame adds exactly 1 to corrupted_messages
C1_EveryExceptionCounted ==
    metadata.corrupted_messages =
        Cardinality({i \in Reads :
            LoopFailure(i) \/ (log[i].received /\ TimestampRaises(log[i].frame))})

\* C1 (amended): an exception raised by recv_match, get_type, to_dict or the
\* trajectory step is caught in the loop and adds exactly 1 to
\* corrupted_messages, an exception raised while the timestamp is resolved is
\* absorbed by _get_timestamp and adds nothing; no read step leaves the
\* Streaming state, and every well-formed frame read afterwards is appended to
\* its bucket and stays there
C1_FrameErrorsCountedAndSkipped ==
    /\ [](metadata.corrupted_messages = Cardinality({i \in Reads : LoopFailure(i)}))
    /\ [][ReadStepContinues]_vars

\* C1 witness: a damaged frame, then a frame whose time field raises, then a
\* well-formed frame that reached its bucket
C1_Witness ==
    /\ Len(log) = 3
    /\ log[1].received /\ Damaged(log[1].frame)
    /\ log[2].received /\ TimestampRaises(log[2].frame) /\ ~Damaged(log[2].frame)
    /\ WellFormed(3) /\ ~TimestampRaises(log[3].frame)
    /\ metadata.corrupted_messages = 1
    /\ Len(Bucket(messages, log[3].frame.msg_type)) >= 1

\* C2: on completion message_count = normalized frames + corrupted_messages
C2_MessageCountInvariant ==
    pc = "Complete" =>
        metadata.message_count = Normalized + metadata.corrupted_messages

\* C3: on completion the buckets hold exactly the frames that were not counted
\* as corrupted: their lengths sum to frames read minus corrupted_messages
C3_CorruptedInNoBucket ==
    pc = "Complete" =>
        SumLen(messages, DOMAIN messages) = Len(log) - metadata.corrupted_messages

\* C4: on completion duration is present iff at least two frames were
\* normalized, and then it is last_timestamp - first_timestamp
C4_DurationIffTwoFrames ==
    pc = "Complete" =>
        /\ (metadata.duration # None) <=> (Normalized >= 2)
        /\ metadata.duration # None =>
              Get(metadata.duration) =
                  Get(metadata.last_timestamp) - Get(metadata.first_timestamp)

\* C5: no two consecutive entries of flight_modes carry the same mode
C5_FlightModesCompressed ==
    pc = "Complete" =>
        \A i \in 1..(Len(flight_modes) - 1) :
            flight_modes[i].mode # flight_modes[i + 1].mode

\* points p, q of the trajectory list differ by more than 0.00001 degrees in
\* latitude or longitude or by more than 0.1 m in relative altitude
Moved(p, q) ==
    \/ Abs(q[2] - p[2]) * 100000 > DegScale
    \/ Abs(q[1] - p[1]) * 100000 > DegScale
    \/ Abs(q[3] - p[3]) * 10 > AltScale

\* the log is two well-formed GLOBAL_POSITION_INT frames 50 ms apart at one position
TwoFramesFiftyMsApart ==
    /\ Len(log) >= 2
    /\ WellFormed(1) /\ WellFormed(2)
    /\ log[1].frame.msg_type = "GLOBAL_POSITION_INT"
    /\ log[2].frame.msg_type = "GLOBAL_POSITION_INT"
    /\ (log[2].frame._timestamp.v - log[1].frame._timestamp.v) * 1000 = 50 * TsScale
    /\ log[1].frame.fields = log[2].frame.fields

\* C6: each accepted point after the first is at least 200 ms later than the
\* accepted point before it and has moved beyond the threshold from it; two
\* frames 50 ms apart at one position yield one point
C6_AcceptedPointsSpaced ==
    /\ \A i \in 1..(Len(trajectory) - 1) :
          /\ trajectory[i + 1][4] - trajectory[i][4] >= 200
          /\ Moved(trajectory[i], trajectory[i + 1])
    /\ (TwoFramesFiftyMsApart /\ Len(log) = 2) => Len(trajectory) = 1

\* C6 witness: the second of two frames 50 ms apart was rejected, and a later
\* sample was accepted against the first
C6_Witness ==
    /\ TwoFramesFiftyMsApart
    /\ Len(log) = 3
    /\ Len(trajectory) = 2

\* C7: the trajectory list is non-decreasing in timestamp
C7_TrajectoryMonotonic ==
    \A i \in 1..(Len(trajectory) - 1) : trajectory[i][4] <= trajectory[i + 1][4]

\* C7 witness: a frame arrived with a timestamp earlier than its predecessor's
\* and the trajectory has two points
C7_Witness ==
    /\ Len(trajectory) = 2
    /\ \E i \in 1..(Len(log) - 1) :
          /\ WellFormed(i) /\ WellFormed(i + 1)
          /\ log[i + 1].frame._timestamp.v < log[i].frame._timestamp.v

\* read i delivered the sample that was accepted as trajectory point p
SampleOf(p, i) ==
    /\ WellFormed(i)
    /\ log[i].frame.msg_type = "GLOBAL_POSITION_INT"
    /\ ToMillis(log[i].frame._timestamp.v) = p[4]
    /\ Degrees(log[i].frame.fields.lon) = p[1]
    /\ Degrees(log[i].frame.fields.lat) = p[2]

RelativeAltOf(i) == Metres(log[i].frame.fields.relative_alt)

\* C8: startAltitude is the relative altitude of the first accepted sample,
\* is never assigned again, the first point's altitude is 0 and every point's
\* altitude is its sample's relative altitude minus startAltitude
C8_StartAltitudeFixed ==
    /\ []((start_altitude = None) <=> (trajectory = <<>>))
    /\ [](trajectory # <<>> =>
            /\ trajectory[1][3] = 0
            /\ \E i \in Reads :
                  SampleOf(trajectory[1], i) /\ Get(start_altitude) = RelativeAltOf(i)
            /\ \A n \in 1..Len(trajectory) :
                  /\ \E i \in Reads : SampleOf(trajectory[n], i)
                  /\ \A i \in Reads :
                        SampleOf(trajectory[n], i) =>
                            trajectory[n][3] = RelativeAltOf(i) - Get(start_altitude))
    /\ [][start_altitude # None => start_altitude' = start_altitude]_vars

\* C8 witness: a second sample was accepted at another relative altitude
C8_Witness ==
    /\ Len(trajectory) = 2
    /\ trajectory[2][3] # 0

\* index of the first HEARTBEAT the reader delivered, 0 if there is none
FirstHeartbeat ==
    LET hb == {i \in Reads : WellFormed(i) /\ log[i].frame.msg_type = "HEARTBEAT"}
    IN  IF hb = {} THEN 0 ELSE CHOOSE i \in hb : \A j \in hb : i <= j

FirstHeartbeatRecognized ==
    /\ FirstHeartbeat # 0
    /\ "type" \in DOMAIN log[FirstHeartbeat].frame.fields
    /\ log[FirstHeartbeat].frame.fields.type \in DOMAIN type_map

\* MSG frames whose text holds a vehicle keyword
KeywordReads ==
    {i \in Reads : /\ WellFormed(i)
                   /\ log[i].frame.msg_type = "MSG"
                   /\ KeywordType(Lower(log[i].frame.fields.Message)) # "UNKNOWN"}

\* C9: a recognized type code in the first HEARTBEAT decides the vehicle type
C9_HeartbeatCodeWins ==
    (pc = "Complete" /\ FirstHeartbeatRecognized) =>
        vehicle_type = type_map[log[FirstHeartbeat].frame.fields.type]

\* C9 witness: the first heartbeat says Quadcopter, a text says ArduPlane and a
\* later heartbeat says Fixed Wing
C9_Witness ==
    /\ pc = "Complete"
    /\ FirstHeartbeatRecognized
    /\ \E i \in KeywordReads :
          KeywordType(Lower(log[i].frame.fields.Message))
              # type_map[log[FirstHeartbeat].frame.fields.type]
    /\ \E j \in Reads :
          /\ j > FirstHeartbeat
          /\ log[j].frame.msg_type = "HEARTBEAT"
          /\ "type" \in DOMAIN log[j].frame.fields
          /\ log[j].frame.fields.type # log[FirstHeartbeat].frame.fields.type

\* C10: without a heartbeat, or with a first heartbeat whose code is not in
\* the table, the first MSG text holding a keyword decides the vehicle type
C10_KeywordFallback ==
    (pc = "Complete" /\ ~FirstHeartbeatRecognized /\ KeywordReads # {}) =>
        LET first == CHOOSE i \in KeywordReads : \A j \in KeywordReads : i <= j
        IN  vehicle_type = KeywordType(Lower(log[first].frame.fields.Message))

(***************************************************************************)
(* Timestamp resolution                                                    *)
(***************************************************************************)
\* the last read delivered a frame; its resolved timestamp is last_timestamp
FrameJustRead == Len(log) > 0 /\ log[Len(log)].received

LastFrame == log[Len(log)].frame

Resolved == Get(metadata.last_timestamp)

\* the resolved timestamp follows the order _timestamp, time_boot_ms / 1000,
\* time_unix_usec / 1000000 for the fields on which the division succeeds,
\* and is the cached wall-clock value when the frame has none of the fields
ResolvedInOrder ==
    /\ LastFrame._timestamp.has => Resolved = LastFrame._timestamp.v
    /\ (~LastFrame._timestamp.has /\ LastFrame.time_boot_ms.has
            /\ LastFrame.time_boot_ms.ok) =>
          Resolved * 1000 = LastFrame.time_boot_ms.v * TsScale
    /\ (~LastFrame._timestamp.has /\ ~LastFrame.time_boot_ms.has
            /\ LastFrame.time_unix_usec.has /\ LastFrame.time_unix_usec.ok) =>
          Resolved * 1000000 = LastFrame.time_unix_usec.v * TsScale
    /\ (~LastFrame._timestamp.has /\ ~LastFrame.time_boot_ms.has
            /\ ~LastFrame.time_unix_usec.has) =>
          Resolved \in WallClock /\ current_timestamp = Some(Resolved)

\* C11 as stated: the sources are tried in the order _timestamp, time_boot_ms,
\* time_unix_usec, wall clock, and the wall clock is used only for a frame
\* that has none of the three fields
C11_LowerSourceOnlyIfHigherAbsent ==
    FrameJustRead =>
        /\ ResolvedInOrder
        /\ Resolved \in WallClock =>
              /\ ~LastFrame._timestamp.has
              /\ ~LastFrame.time_boot_ms.has
              /\ ~LastFrame.time_unix_usec.has

\* C11 (amended): the sources are tried in the order _timestamp,
\* time_boot_ms, time_unix_usec, wall clock, a lower one only when every
\* higher field is absent; when the division on the selected field raises,
\* the wall-clock time of that moment is returned although the field (and
\* possibly a lower-priority field) is present
C11_FallbackChain ==
    FrameJustRead =>
        /\ ResolvedInOrder
        /\ Resolved \in WallClock <=>
              /\ ~LastFrame._timestamp.has
              /\ \/ ~LastFrame.time_boot_ms.has /\ ~LastFrame.time_unix_usec.has
                 \/ TimestampRaises(LastFrame)

\* C11 witness: frames resolved by time_boot_ms and by time_unix_usec were
\* read, then a frame that carries all three fields
C11_Witness ==
    /\ Len(log) = 3
    /\ \A i \in Reads : log[i].received
    /\ ~log[1].frame._timestamp.has /\ log[1].frame.time_boot_ms.has
    /\ log[1].frame.time_boot_ms.ok /\ log[1].frame.time_unix_usec.has
    /\ ~log[2].frame._timestamp.has /\ ~log[2].frame.time_boot_ms.has
    /\ log[2].frame.time_unix_usec.ok /\ log[2].frame.time_unix_usec.has
    /\ log[3].frame._timestamp.has /\ log[3].frame.time_boot_ms.has
    /\ log[3].frame.time_boot_ms.ok /\ log[3].frame.time_unix_usec.has
    /\ Resolved = log[3].frame._timestamp.v

(***************************************************************************)
(* Life cycle of one parse                                                 *)
(***************************************************************************)
\* C12: parse() fails only while it opens the log; once Streaming has started
\* every step keeps it in Streaming or takes it to Complete
C12_FailedOnlyFromOpened ==
    [][(pc = "Streaming" => pc' \in {"Streaming", "Complete"})
        /\ (pc' = "Failed" => pc = "Constructed")]_vars


\* C13: on every exit path of parse(), the normal return and the raised
\* failure alike, the file handle that was opened has been closed.
C13_HandleClosedOnExit ==
    pc \in {"Complete", "Failed"} => ~mlog_open

\* C14: the streaming loop terminates, also when recv_match() raises on
\* every call: whatever the reader does, the loop has a step that leaves
\* Streaming.
C14_StreamingCanEnd ==
    pc = "Streaming" => ENABLED (Next /\ pc' # "Streaming")


\* the read that this step adds to log
NewRead == log'[Len(log')]

\* this step appended the record of the frame it read to the bucket of its type
NormalizedStep == NewRead.received /\ Converted(NewRead.frame)

\* the timestamp stored in the record that this step appended
NewRecordTimestamp ==
    LET bucket == messages'[NewRead.frame.msg_type]
    IN  bucket[Len(bucket)]._timestamp

\* C16: first_timestamp is set once, to the timestamp of the first frame that
\* was normalized, last_timestamp is the timestamp of the most recent
\* normalized frame, and a corrupted frame changes neither.
C16_TimestampsFollowNormalizedFrames ==
    [][ReadStep =>
         IF NormalizedStep
         THEN /\ metadata'.last_timestamp = Some(NewRecordTimestamp)
              /\ metadata'.first_timestamp =
                     IF metadata.first_timestamp = None
                     THEN Some(NewRecordTimestamp)
                     ELSE metadata.first_timestamp
         ELSE /\ metadata'.last_timestamp = metadata.last_timestamp
              /\ metadata'.first_timestamp = metadata.first_timestamp]_vars

\* C17: the result of parse() carries the arm/disarm event timeline.
C17_ResultHasEvents ==
    pc = "Complete" => "events" \in result_keys


\* result["messages"] and result["metadata"] are the parser's own dict
\* objects, so what the caller's result shows is what the parser holds now
ResultMessages == messages

ResultMetadata == metadata

\* C15: once parse() has returned, the messages and the metadata of the
\* result handed to the caller stay what they were, also while parse() runs
\* again on the same parser.
C15_ResultIsSnapshot ==
    returned # None =>
        /\ ResultMessages = Get(returned).messages
        /\ ResultMetadata = Get(returned).metadata

\* C19: for a path that names no file, the constructor succeeds and the
\* failure is left to parse().
C19_ConstructorAcceptsMissingFile ==
    ~file_exists => pc # "ConstructFailed"


\* the question contains one of the anomaly keywords, in any letter case
AsksAboutAnomalies == AnyWordIn(anomaly_keywords, Lower(question))

\* C20: every question that contains an anomaly keyword is classified as
\* 'anomaly_tool'.
C20_AnomalyQuestionsGoToAnomalyTool ==
    (query_type # "" /\ AsksAboutAnomalies) => query_type = "anomaly_tool"


\* the state of a parser that has made the first n reads of lg with no other
\* parser in the process
RECURSIVE Replay(_, _)
Replay(lg, n) ==
    IF n = 0 THEN NewContainers @@ NewLocals
    ELSE LET p == Replay(lg, n - 1)
         IN  IF lg[n].received THEN FrameStep(p, lg[n].frame, lg[n].now)
             ELSE ErrorStep(p)

\* what parser i holds after the reads it has made, had it run alone
Alone(i) ==
    LET p == Replay(parsers[i].log, Len(parsers[i].log))
    IN  IF parsers[i].pc = "Complete" THEN Finish(p) ELSE p

\* C18: two parsers decoding different files share no mutable state: however
\* their steps interleave, the messages, counters, timestamps and trajectory
\* of each are what it produces from its own reads when run alone.
C18_InstancesIndependent ==
    \A i \in Instances :
        parsers[i].pc # "Unconstructed" => StateOf(i) = Alone(i)

C18_Witness ==
    /\ \A i \in Instances :
          /\ parsers[i].pc = "Complete"
          /\ Len(parsers[i].log) >= 2
          /\ Len(parsers[i].trajectory) >= 1
    /\ StateOf(1).messages # StateOf(2).messages
    /\ StateOf(1).metadata.corrupted_messages = 0
    /\ StateOf(2).metadata.corrupted_messages = 1


\* the lower-cased question contains one of the retrieval keywords
AsksForRetrieval == AnyWordIn(retrieval_keywords, Lower(question))

NoTimeField(f) ==
    ~f._timestamp.has /\ ~f.time_boot_ms.has /\ ~f.time_unix_usec.has

\* the reads of this run that delivered a frame without a time field
FallbackReads == {i \in Reads : log[i].received /\ NoTimeField(log[i].frame)}

\* C25: within one parse run the wall-clock fallback is computed once and
\* reused: the cached value never changes once it is set, and every frame
\* that has none of the three time fields is given the cached value.
C25_FallbackComputedOnce ==
    [][/\ current_timestamp # None => current_timestamp' = current_timestamp
       /\ (ReadStep /\ NewRead.received /\ NoTimeField(NewRead.frame)) =>
             /\ metadata'.last_timestamp = current_timestamp'
             /\ FallbackReads # {} =>
                   metadata'.last_timestamp = current_timestamp]_vars

\* two frames without a time field were read and both records carry the
\* timestamp that was cached at the first of them
C25_Witness ==
    /\ Cardinality(FallbackReads) >= 2
    /\ "PARAM_VALUE" \in DOMAIN messages
    /\ Len(messages["PARAM_VALUE"]) >= 2
    /\ \A i \in 1..Len(messages["PARAM_VALUE"]) :
          Some(messages["PARAM_VALUE"][i]._timestamp) = current_timestamp


(***************************************************************************)
(* The two views of the track                                              *)
(***************************************************************************)
\* C26: timeTrajectory has exactly one entry per point of the trajectory
\* list, keyed by the point's timestamp in ms, with the same longitude,
\* latitude and timestamp, and with the point's altitude plus startAltitude.
C26_BothViewsAgree ==
    /\ Cardinality(DOMAIN time_trajectory) = Len(trajectory)
    /\ \A i \in 1..Len(trajectory) :
          LET point == trajectory[i]
          IN  /\ point[4] \in DOMAIN time_trajectory
              /\ time_trajectory[point[4]] =
                    <<point[1], point[2], point[3] + Get(start_altitude), point[4]>>

\* three points were accepted, the last of them above the first
C26_Witness ==
    /\ Len(trajectory) = 3
    /\ trajectory[3][3] > 0
    /\ Get(start_altitude) > 0
    /\ Cardinality(DOMAIN time_trajectory) = 3


\* the tags for which parse() derives a track
TrackTags == {"GLOBAL_POSITION_INT"}

\* the tags listed in metadata["trajectorySources"]
ListedSources ==
    {metadata.trajectorySources[i] : i \in 1..Len(metadata.trajectorySources)}

\* C27: a tag is listed in trajectorySources iff its track has at least one
\* accepted point; a log without GLOBAL_POSITION_INT frames lists no source.
C27_SourcesAreDerivedTracks ==
    pc = "Complete" =>
        \A tag \in TrackTags : tag \in ListedSources <=> Len(trajectory) >= 1


(***************************************************************************)
(* Logs without the source message types                                   *)
(***************************************************************************)
SourceTypes == {"ATTITUDE", "HEARTBEAT", "GLOBAL_POSITION_INT"}

\* no frame read so far is an ATTITUDE, HEARTBEAT or GLOBAL_POSITION_INT frame
NoSourceFrames ==
    \A i \in Reads : log[i].received => log[i].frame.msg_type \notin SourceTypes

EmptyAttitude == [roll |-> <<>>, pitch |-> <<>>, yaw |-> <<>>, timestamps |-> <<>>]

\* C28: for a log with no ATTITUDE, no HEARTBEAT and no GLOBAL_POSITION_INT
\* frame, parse() completes and returns empty attitude sequences, an empty
\* flight_modes list and an empty trajectory.
C28_AbsentSourcesGiveEmptyFeatures ==
    [][(pc = "Streaming" /\ pc' # "Streaming" /\ NoSourceFrames) =>
          /\ pc' = "Complete"
          /\ attitude' = Some(EmptyAttitude)
          /\ flight_modes' = <<>>
          /\ trajectory' = <<>>
          /\ metadata'.currentTrajectory = <<>>]_vars

\* a log of three frames, none of a source type, has been parsed
C28_Witness ==
    /\ pc = "Complete"
    /\ Len(log) = 3
    /\ \A i \in Reads : log[i].received
    /\ NoSourceFrames
    /\ metadata.message_count = 3
    /\ attitude = Some(EmptyAttitude)


(***************************************************************************)
(* The minimum interval of the trajectory filter                           *)
(***************************************************************************)
\* 200 ms in the fixed-point seconds of the resolved timestamps
TwoHundredMs == (200 * TsScale) \div 1000

\* this step read a well-formed GLOBAL_POSITION_INT sample that is at least
\* 200 ms later than the last accepted sample and has moved from it
LaterAndMoved ==
    /\ ReadStep
    /\ NewRead.received
    /\ ~Damaged(NewRead.frame)
    /\ NewRead.frame.msg_type = "GLOBAL_POSITION_INT"
    /\ last_timestamp # None
    /\ Get(metadata'.last_timestamp) - Get(last_timestamp) >= TwoHundredMs
    /\ MovedEnough(Degrees(NewRead.frame.fields.lat),
                   Degrees(NewRead.frame.fields.lon),
                   Metres(NewRead.frame.fields.relative_alt), last_position)

\* C29: every GLOBAL_POSITION_INT sample that is at least 200 ms later than
\* the last accepted sample and differs from it in position beyond the
\* threshold is accepted into the trajectory.
C29_TwoHundredMsSuffice ==
    [][LaterAndMoved => Len(trajectory') = Len(trajectory) + 1]_vars


(***************************************************************************)
(* The tools                                                               *)
(***************************************************************************)
Called(tool) == tool_call # None /\ Get(tool_call).tool = tool

\* the result is the single-element list [{'error': ...}]
IsErrorList(result) == Len(result) = 1 /\ DOMAIN result[1] = {"error"}

\* a failure occurs in the call: the index or the snippets file cannot be
\* loaded, the search raises, a label names no snippet, or an entry the loop
\* comes to is no dict
CallFails ==
    LET disk == Get(saved)
        call == Get(tool_call)
    IN  \/ ~disk.readable
        \/ /\ call.tool = "detect_anomalies"
           /\ \E i \in 1..Len(disk.snippets) : ~disk.snippets[i].isdict
        \/ /\ call.tool = "retrieve_snippets"
           /\ \/ ~disk.index_ok
              \/ ~call.search_ok
              \/ \E j \in 1..Len(call.labels) :
                    \/ ~InRange(disk.snippets, call.labels[j])
                    \/ ~PyIndex(disk.snippets, call.labels[j]).isdict

\* the snippet's text contains one of the keywords, in any letter case
HasKeyword(snippet) == AnyWordIn(keywords, Lower(snippet.text))

\* one of errors_count1..errors_count4, errors_comm of the message is above 0
HasErrorCount(snippet) ==
    \E i \in 1..Len(snippet.msg) : \E c \in 1..Len(CounterKeys) :
        /\ snippet.msg[i][1] = CounterKeys[c]
        /\ snippet.msg[i][2].isnum
        /\ snippet.msg[i][2].n > 0

Reported(snippet, type) ==
    \E n \in 1..Len(Get(tool_result)) :
        Get(tool_result)[n] = AnomalyEntry(snippet, type)

\* C22: a snippet is reported with type 'anomaly' iff its text contains a
\* keyword; a SYS_STATUS snippet without a keyword is reported, with type
\* 'sys_status_error', iff one of its error counters is above 0.
C22_AnomaliesFiltered ==
    (Called("detect_anomalies") /\ ~CallFails) =>
        /\ \A n \in 1..Len(Get(tool_result)) :
              \E i \in 1..Len(Get(saved).snippets) :
                 \E type \in {"anomaly", "sys_status_error"} :
                    Get(tool_result)[n] = AnomalyEntry(Get(saved).snippets[i], type)
        /\ \A i \in 1..Len(Get(saved).snippets) :
              LET snippet == Get(saved).snippets[i]
              IN  /\ Reported(snippet, "anomaly") <=> HasKeyword(snippet)
                  /\ (snippet.msg_type = <<"S","Y","S","_","S","T","A","T","U","S">> /\ ~HasKeyword(snippet)) =>
                        (Reported(snippet, "sys_status_error")
                            <=> HasErrorCount(snippet))
                  /\ (snippet.msg_type = <<"S","Y","S","_","S","T","A","T","U","S">> /\ ~HasErrorCount(snippet)) =>
                        ~Reported(snippet, "sys_status_error")

\* the file of the test: a SYS_STATUS snippet with no error, one with
\* errors_count1 = 2; the result reports the second only
C22_Witness ==
    /\ Called("detect_anomalies")
    /\ ~CallFails
    /\ Len(Get(saved).snippets) = 2
    /\ Get(saved).snippets[1].msg_type = <<"S","Y","S","_","S","T","A","T","U","S">>
    /\ ~HasErrorCount(Get(saved).snippets[1])
    /\ Get(saved).snippets[2].msg_type = <<"S","Y","S","_","S","T","A","T","U","S">>
    /\ HasErrorCount(Get(saved).snippets[2])
    /\ Get(tool_result) = <<AnomalyEntry(Get(saved).snippets[2], "sys_status_error")>>


\* the stored snippet that the index keeps under label i, for 0 <= i < n
StoredAt(i) == Get(saved).snippets[i + 1]

\* C23: a successful retrieve_snippets returns one entry per label of the
\* search, in search order, and each entry carries the timestamp, msg_type
\* and text of the stored snippet at that label.
C23_EntriesAreSearchHits ==
    (Called("retrieve_snippets") /\ ~IsErrorList(Get(tool_result))) =>
        /\ Len(Get(tool_result)) = Len(Get(tool_call).labels)
        /\ \A j \in 1..Len(Get(tool_call).labels) :
              /\ Get(tool_call).labels[j] \in 0..(Len(Get(saved).snippets) - 1)
              /\ Get(tool_result)[j] = SnippetEntry(StoredAt(Get(tool_call).labels[j]))
              /\ "text" \in DOMAIN Get(tool_result)[j]

\* no entry of the result is an error entry
IsResultList(result) ==
    \A n \in 1..Len(result) : "error" \notin DOMAIN result[n]

\* C30: retrieve_snippets and detect_anomalies never raise: a call in which
\* a failure occurs returns the single-element list [{'error': ...}], a call
\* without failure returns a list without error entries, and no result holds
\* entries built before the failure together with an error.
C30_FailuresBecomeErrorLists ==
    tool_call # None =>
        /\ tool_result # None
        /\ CallFails => IsErrorList(Get(tool_result))
        /\ ~CallFails => IsResultList(Get(tool_result))
        /\ IsErrorList(Get(tool_result)) \/ IsResultList(Get(tool_result))

\* the loop had built an entry when it came to an entry that is no dict
C30_Witness ==
    /\ tool_call # None
    /\ Len(Get(saved).snippets) = 2
    /\ Get(saved).readable
    /\ HasKeyword(Get(saved).snippets[1])
    /\ ~Get(saved).snippets[2].isdict
    /\ \/ Called("detect_anomalies")
       \/ /\ Called("retrieve_snippets")
          /\ Get(saved).index_ok
          /\ Get(tool_call).search_ok
          /\ Get(tool_call).labels = <<0, 1>>
    /\ IsErrorList(Get(tool_result))


(***************************************************************************)
(* The ResponseEvaluator                                                   *)
(***************************************************************************)
\* C24: ResponseEvaluator offers should_use_tool(question, response): the
\* call returns a verdict and does not fail for want of the method.
C24_ShouldUseToolOffered ==
    eval_call = "should_use_tool" => eval_pc # "raised"


\* evaluate has returned for a reply of the LLM
Evaluated == eval_call = "evaluate" /\ eval_pc = "returned"

\* the lower-cased reply
Reply == Lower(Get(llm_content))

HasRoute == llm_content # None /\ Contains(Reply, RouteMarker)

\* the text that follows the first marker
AfterMarker == SubSeq(Reply, IndexOf(Reply, RouteMarker, 1) + Len(RouteMarker), Len(Reply))

\* that text up to the end of its line
RestOfLine ==
    LET stops == {i \in 1..Len(AfterMarker) : AfterMarker[i] = "\n"}
    IN  IF stops = {} THEN AfterMarker
        ELSE SubSeq(AfterMarker, 1, (CHOOSE i \in stops : \A j \in stops : i <= j) - 1)

\* that text up to the end of its line or to the next marker on it
RestOfLineToMarker ==
    LET stops == {i \in 1..Len(AfterMarker) :
                     \/ AfterMarker[i] = "\n"
                     \/ /\ i + Len(RouteMarker) - 1 <= Len(AfterMarker)
                        /\ SubSeq(AfterMarker, i, i + Len(RouteMarker) - 1) = RouteMarker}
    IN  IF stops = {} THEN AfterMarker
        ELSE SubSeq(AfterMarker, 1, (CHOOSE i \in stops : \A j \in stops : i <= j) - 1)

Embedding == <<"e","m","b","e","d","d","i","n","g">>

\* evaluate does not raise and returns a pair whose route is "embedding"
\* when the LLM failed or gave no marker
FallsBackToEmbedding ==
    /\ eval_call = "evaluate" => eval_pc # "raised"
    /\ Evaluated =>
          /\ eval_result # None
          /\ Len(Get(eval_result)) = 2
          /\ ~HasRoute => Get(eval_result)[1] = Embedding

\* C31 as stated: evaluate never raises and always returns a (route, reason)
\* pair; the route is 'embedding' when the LLM call fails or its output has
\* no 'route:' marker, and otherwise the lower-cased text that follows the
\* first 'route:' up to the end of that line.
C31_RouteIsRestOfLine ==
    /\ FallsBackToEmbedding
    /\ Evaluated /\ HasRoute => Get(eval_result)[1] = RestOfLine

\* C31 as the code has it: the text after the first 'route:' ends at the end
\* of the line or at the next 'route:' on that line, whichever comes first,
\* and is stripped of the whitespace around it.
C31_RouteIsStrippedRestOfLine ==
    /\ FallsBackToEmbedding
    /\ Evaluated /\ HasRoute => Get(eval_result)[1] = Strip(RestOfLineToMarker)

\* a reply whose routing line has blanks around the route and a second marker
C31_Witness ==
    /\ Evaluated /\ HasRoute
    /\ RestOfLine # RestOfLineToMarker
    /\ Strip(RestOfLineToMarker) # RestOfLineToMarker
    /\ Get(eval_result)[1] = <<"e","m","b","e","d","d","i","n","g"," ","(">>

\* the LLM call failed and evaluate returned the embedding route
C31_WitnessFailure ==
    /\ Evaluated /\ llm_content = None
    /\ Get(eval_result)[1] = Embedding


(***************************************************************************)
(* Buckets and reported types                                              *)
(***************************************************************************)
\* the types of the frames whose get_type() returned during the parse
SeenTypes ==
    {log[i].frame.msg_type :
        i \in {j \in 1..Len(log) : log[j].received /\ Typed(log[j].frame)}}

\* C38 as stated: in the result of parse() the keys of messages are the types
\* reported in 'types', and a tag has a bucket iff a frame of it was seen.
C38_BucketsAreReportedTypes ==
    pc = "Complete" =>
        /\ DOMAIN messages = message_types
        /\ message_types = SeenTypes

\* C38 as the code has it: the keys of messages are the reported types
\* together with GLOBAL_POSITION_INT, whose bucket exists in every result;
\* the reported types are those of the frames whose type was read.
C38_BucketsAreReportedTypesAndPosition ==
    pc = "Complete" =>
        /\ DOMAIN messages = message_types \cup {"GLOBAL_POSITION_INT"}
        /\ message_types = SeenTypes

\* a log without position frames whose only ATTITUDE frame failed to convert
C38_Witness ==
    /\ pc = "Complete"
    /\ "GLOBAL_POSITION_INT" \notin message_types
    /\ "GLOBAL_POSITION_INT" \in DOMAIN messages
    /\ "ATTITUDE" \in message_types
    /\ messages["ATTITUDE"] = <<>>


(***************************************************************************)
(* The inline track and the completed bucket                               *)
(***************************************************************************)
\* all reads of this parser so far, those of an earlier parse() first
AllReads == IF file = None THEN log ELSE Get(file) \o log

IsPositionSample(e) == e.received /\ IsPosition(e.frame)

\* the frames that were appended to the GLOBAL_POSITION_INT bucket
PositionSamples == SelectSeq(AllReads, IsPositionSample)

PositionBucket == messages["GLOBAL_POSITION_INT"]

\* the significance filter walked over records i.. of the bucket in arrival
\* order, from the last accepted position and timestamp in st; a record whose
\* position fields cannot be converted is passed over
RECURSIVE BucketTrack(_, _)
BucketTrack(i, st) ==
    IF i > Len(PositionBucket) THEN st.trajectory
    ELSE LET rec == PositionBucket[i]
             lat == Degrees(rec.lat)
             lon == Degrees(rec.lon)
             relative_alt == Metres(rec.relative_alt)
             accepted == /\ PositionSamples[i].frame.fault # "position"
                         /\ EnoughTime(rec._timestamp, st.last_timestamp)
                         /\ MovedEnough(lat, lon, relative_alt, st.last_position)
             start == NextStartAltitude(st.start_altitude, relative_alt)
         IN  IF accepted
             THEN BucketTrack(i + 1,
                    [trajectory |-> Append(st.trajectory,
                                      <<lon, lat, relative_alt - Get(start),
                                        ToMillis(rec._timestamp)>>),
                     start_altitude |-> start,
                     last_position |-> Some(<<lat, lon, relative_alt>>),
                     last_timestamp |-> Some(rec._timestamp)])
             ELSE BucketTrack(i + 1, st)

NothingAccepted ==
    [trajectory |-> <<>>, start_altitude |-> None,
     last_position |-> None, last_timestamp |-> None]

\* C34: when parse() has returned, the track built inline is the track that
\* the same filter gives over the completed GLOBAL_POSITION_INT bucket in
\* arrival order; the bucket holds one record for each sample of the log.
C34_InlineTrackIsBucketTrack ==
    pc = "Complete" =>
        /\ Len(PositionBucket) = Len(PositionSamples)
        /\ trajectory = BucketTrack(1, NothingAccepted)

\* a second parse() has returned a track that the bucket, walked as a whole,
\* does not give
C34_SecondParseDiverges ==
    /\ pc = "Complete"
    /\ file # None
    /\ Len(PositionBucket) = Len(PositionSamples)
    /\ Len(trajectory) = 2
    /\ Len(BucketTrack(1, NothingAccepted)) = 3

\* a first parse() has returned a track of two points from three samples
C34_FirstParseAgrees ==
    /\ pc = "Complete"
    /\ file = None
    /\ Len(PositionBucket) = 3
    /\ Len(trajectory) = 2
    /\ trajectory = BucketTrack(1, NothingAccepted)


(***************************************************************************)
(* A second parse() on the same parser                                     *)
(***************************************************************************)
\* every read of this run delivered a frame that carries its capture time
AllStamped ==
    /\ Len(log) > 0
    /\ \A i \in 1..Len(log) :
          /\ log[i].received
          /\ log[i].frame._timestamp.has
          /\ log[i].frame._timestamp.ok

\* the second parse() has returned
SecondResult == pc = "Complete" /\ file # None /\ returned # None

\* C39: a second parse() on the same parser over the unchanged file, whose
\* frames all carry embedded timestamps, returns what the first one returned:
\* the same counts, first and last timestamp, buckets and trajectory.
C39_SecondParseRepeatsFirst ==
    (SecondResult /\ AllStamped) =>
        LET first == Get(returned)
        IN  /\ metadata.message_count = first.metadata.message_count
            /\ metadata.corrupted_messages = first.metadata.corrupted_messages
            /\ metadata.first_timestamp = first.metadata.first_timestamp
            /\ metadata.last_timestamp = first.metadata.last_timestamp
            /\ messages = first.messages
            /\ trajectory = first.trajectory


(***************************************************************************)
(* The API server                                                          *)
(***************************************************************************)
\* request r arrives in this step with operation op
ArrivesAs(r, op) == requests[r].pc = "idle" /\ requests'[r].op = op

\* C32: a chat request whose fileKey is not in file_data is answered 404 and
\* leaves file_data and the uploads directory as they were.
C32_UnknownKeyIsRejected ==
    [][\A r \in Requests :
          (/\ ArrivesAs(r, "chat")
           /\ requests'[r].key # NoKey
           /\ requests'[r].key \notin DOMAIN file_data)
          => /\ requests'[r].status = 404
             /\ file_data' = file_data
             /\ uploads' = uploads]_vars

\* the directory without the file of any of the keys, whatever its extension
WithoutFilesOf(files, keys) == {f \in files : f[1] \notin keys}

\* C33: when clear-history has returned success, file_data is empty and no
\* file of a key that was stored is left in the uploads directory, whatever
\* its extension.
C33_ClearRemovesEveryFile ==
    [][\A r \in Requests :
          (ArrivesAs(r, "clear") /\ requests'[r].status = 200)
          => /\ DOMAIN file_data' = {}
             /\ uploads' = WithoutFilesOf(uploads, DOMAIN file_data)]_vars

\* C35: every key of file_data has its index and snippets file saved, and no
\* chat request has met a stored key without them.
C35_StoredKeysAreIndexed ==
    /\ DOMAIN file_data \subseteq faiss_indexes
    /\ \A r \in Requests : ~requests[r].unindexed

\* the notification loop of request r ends in this step
LoopEnds(r) ==
    /\ requests[r].pc \in {"notify_creating", "notify_created"}
    /\ requests'[r].pc # requests[r].pc

Times(c, seq) == Cardinality({i \in 1..Len(seq) : seq[i] = c})

\* C36: a connection that was registered during the whole of one
\* notify_embedding_status call was sent the message exactly once.
C36_EveryLiveSubscriberNotified ==
    [][\A r \in Requests :
          LoopEnds(r) =>
              \A c \in requests[r].live : Times(c, requests[r].sent) = 1]_vars


(***************************************************************************)
(* The orchestrator                                                        *)
(***************************************************************************)
\* C37: answer_question returns a string on every path and lets no exception
\* out: a failing LLM call or tool is turned into an error or apology message.
C37_NoExceptionLeavesAnswerQuestion ==
    /\ orch_pc # "raised"
    /\ orch_pc = "returned" => orch_returned # ""

=============================================================================
